---- MODULE Spec2Model ----
(***************************************************************************)
(* A model of pyjsdoc (src/pyjsdoc.py): the dependency graph builder and   *)
(* topological sorter, the construction of a CodeBaseDoc and the command   *)
(* line entry point that drives it, the delimited splitter, the comment    *)
(* extractor, the comment parser (parse_comment and its helpers), the      *)
(* FunctionDoc properties and ParamDoc, the FileDoc constructor, and the   *)
(* CodeBaseDoc: its superclass lists, translate_ref_to_url and to_dict.    *)
(*                                                                         *)
(* Strings are sequences of one-character strings.  Every function of the  *)
(* program that loops is modelled by a frame record (its locals and its    *)
(* position) and a step operator; a specification runs the steps one by    *)
(* one, and a caller that needs the function's result runs them to the end.*)
(***************************************************************************)
EXTENDS Integers, Sequences, FiniteSets, TLC

VARIABLES
    js_doc,   \* the dependency lookup: file key -> the file's @dependency list
    fd,       \* the frame of the running find_dependencies call
    main,     \* the locals of main and the CodeBaseDoc it builds
    sd,       \* the frame of the running split_delimited generator
    gdc,      \* the frame of the running get_doc_comments call
    cdoc,     \* a comment text, its parse_comment result and a FunctionDoc property
    pdoc,     \* a tag body and the ParamDoc made of it
    fdoc,     \* the frame of the running FileDoc constructor
    ss,       \* a doc comment and what strip_stars makes of it, once and twice
    cb        \* a CodeBaseDoc: its files, its superclass lists, one translated reference

vars == <<js_doc, fd, main, sd, gdc, cdoc, pdoc, fdoc, ss, cb>>

(***************************************************************************)
(* Bounds and input alphabets.                                             *)
(***************************************************************************)
\* The most @dependency declarations a file set holds, all files together.
MaxEdges == 3

\* The longest text handed to split_delimited, in characters.
MaxText == 4

\* The longest file text handed to get_doc_comments, in tokens.
MaxTokens == 5

\* Most tag sections of a comment text.
MaxTags == 3

\* Most characters of a tag body handed to ParamDoc.
MaxParamText == 5

\* Most doc comments of a file text.
MaxComments == 3

\* Most characters between the markers of a doc comment handed to strip_stars.
MaxCommentText == 4

\* Most files of a codebase.
MaxFiles == 2

\* Most ancestors a superclass walk is followed for; a walk longer than the
\* number of classes has met a class twice and goes on for ever.
MaxChain == 4

\* The file keys of the lookup (the keys of the CodeBaseDoc dictionary).
Files == {"a", "b", "c"}

\* A key that names no file of the lookup.
Absent == "z"

Keys == Files \cup {Absent}

SeqsUpTo(S, n) == UNION {[1..k -> S] : k \in 0..n}

Range(s) == {s[k] : k \in 1..Len(s)}

NoDup(s) == \A p, q \in 1..Len(s) : p # q => s[p] # s[q]

Last(s) == s[Len(s)]

Front(s) == SubSeq(s, 1, Len(s) - 1)

\* The start lists: the callers pass [module.name], the keys of the
\* dictionary, or a set of them, so no key is listed twice.
StartLists == {s \in SeqsUpTo(Files, Cardinality(Files)) : Len(s) > 0 /\ NoDup(s)}

(***************************************************************************)
(* Python's indexing: positions count from 0, s[a:b] clips its bounds to   *)
(* the string and counts a negative bound from the end, and s.find gives   *)
(* -1 when there is nothing to find.                                       *)
(***************************************************************************)
At(s, i) == s[i + 1]

Clip(s, k) ==
    LET k1 == IF k < 0 THEN k + Len(s) ELSE k IN
    IF k1 < 0 THEN 0 ELSE IF k1 > Len(s) THEN Len(s) ELSE k1

Slice(s, a, b) ==
    IF Clip(s, a) >= Clip(s, b) THEN << >>
    ELSE SubSeq(s, Clip(s, a) + 1, Clip(s, b))

SliceFrom(s, a) == Slice(s, a, Len(s))

StartsAt(s, sub, i) ==
    i + Len(sub) <= Len(s) /\ SubSeq(s, i + 1, i + Len(sub)) = sub

\* s.find(sub, from)
Find(s, sub, from) ==
    LET hits == {i \in from..Len(s) : StartsAt(s, sub, i)} IN
    IF hits = {} THEN -1 ELSE CHOOSE i \in hits : \A j \in hits : i <= j

\* sub in s
Contains(s, sub) == Find(s, sub, 0) # -1

(***************************************************************************)
(* split_delimited (src/pyjsdoc.py, 150-203).                              *)
(* delimiters is the string of delimiter pairs.  split_by is a character   *)
(* (is_str) or a predicate on characters; accepts holds the characters it  *)
(* splits on.  out collects the segments yielded so far.                   *)
(***************************************************************************)
\* actions[c] = (which pair, +1 or -1), filled pair by pair, a later entry
\* for a character replacing an earlier one.
RECURSIVE fill_actions(_, _, _)
fill_actions(delimiters, i, acc) ==
    IF i >= Len(delimiters) THEN acc
    ELSE fill_actions(delimiters, i + 2,
                      (At(delimiters, i + 1) :> <<i \div 2, -1>>)
                         @@ (At(delimiters, i) :> <<i \div 2, 1>>) @@ acc)

actions(delimiters) == fill_actions(delimiters, 0, << >>)

split_delimited_frame(delimiters, split_by, text) ==
    [pc         |-> "loop",
     delimiters |-> delimiters,
     split_by   |-> split_by,
     text       |-> text,
     delims     |-> [k \in 1..(Len(delimiters) \div 2) |-> 0],
     last       |-> 0,
     i          |-> 0,
     out        |-> << >>]

split_fn(split_by, c) == c \in split_by.accepts

\* A test that looks at the first pair's counter only.
any_first(delims) == Len(delims) > 0 /\ delims[1] # 0

\* any(delims)
any(delims) == \E k \in 1..Len(delims) : delims[k] # 0

\* A yield that leaves the split character at the head of the next segment.
yield_segment_keep_separator(f) ==
    [f EXCEPT !.out = Append(@, Slice(f.text, f.last, f.i)), !.last = f.i]

\* yield text[last:i]; last = i + 1
yield_segment(f) ==
    [f EXCEPT !.out = Append(@, Slice(f.text, f.last, f.i)), !.last = f.i + 1]

\* A counter that refuses to go below zero and raises instead.
update_depth_strict(f, c) ==
    LET acts == actions(f.delimiters) IN
    IF c \notin DOMAIN acts THEN f
    ELSE IF f.delims[acts[c][1] + 1] + acts[c][2] < 0 THEN [f EXCEPT !.pc = "raised"]
    ELSE [f EXCEPT !.delims[acts[c][1] + 1] = @ + acts[c][2]]

\* A counter that stays at zero when a closer has no opener.
update_depth_clamped(f, c) ==
    LET acts == actions(f.delimiters) IN
    IF c \notin DOMAIN acts THEN f
    ELSE IF f.delims[acts[c][1] + 1] + acts[c][2] < 0 THEN f
    ELSE [f EXCEPT !.delims[acts[c][1] + 1] = @ + acts[c][2]]

\* which, dir = actions[c]; delims[which] = delims[which] + dir, a character
\* that is no delimiter (KeyError) being passed over.
update_depth(f, c) ==
    LET acts == actions(f.delimiters) IN
    IF c \in DOMAIN acts
    THEN [f EXCEPT !.delims[acts[c][1] + 1] = @ + acts[c][2]]
    ELSE f

\* One pass of "for i in xrange(len(text))", or the closing yield text[last:].
split_delimited_step(f) ==
    IF f.i >= Len(f.text)
    THEN [f EXCEPT !.out = Append(@, SliceFrom(f.text, f.last)), !.pc = "done"]
    ELSE LET c  == At(f.text, f.i)
             f1 == IF split_fn(f.split_by, c) /\ ~any(f.delims)
                   THEN yield_segment(f) ELSE f
             f2 == update_depth(f1, c) IN
         IF f2.pc = "raised" THEN f2 ELSE [f2 EXCEPT !.i = @ + 1]

SplitEnded(f) == f.pc \in {"done", "raised"}

\* list(split_delimited(...)): the generator run to its end.
RECURSIVE run_split_delimited(_)
run_split_delimited(f) ==
    IF SplitEnded(f) THEN f ELSE run_split_delimited(split_delimited_step(f))

\* split_delimited(...).next(): the generator run to its first yield.
RECURSIVE run_to_first_yield(_)
run_to_first_yield(f) ==
    IF SplitEnded(f) \/ f.out # << >> THEN f
    ELSE run_to_first_yield(split_delimited_step(f))

(***************************************************************************)
(* get_doc_comments (src/pyjsdoc.py, 205-234).                             *)
(* matches holds (match.start(0), match.end(0)) of the comments found so   *)
(* far, pairs the (comment, next_line) pairs made of them.                 *)
(***************************************************************************)
NL == "\n"

Parens == <<"(", ")">>

OpenMarker == <<"/", "*", "*">>

CloseMarker == <<"*", "/">>

ClassTag == <<"@", "c", "l", "a", "s", "s">>

LiteralSplit(c) == [is_str |-> TRUE, accepts |-> {c}]

\* The next match of /\*\*(.*?)\*/ (DOTALL) at or after pos, as (start, end),
\* or (-1, -1): the first open marker, up to the first close marker that
\* begins after it.
next_match(text, pos) ==
    LET start == Find(text, OpenMarker, pos)
        close == IF start = -1 THEN -1
                 ELSE Find(text, CloseMarker, start + Len(OpenMarker)) IN
    IF close = -1 THEN <<-1, -1>> ELSE <<start, close + Len(CloseMarker)>>

make_pair(text, match) ==
    LET comment == Slice(text, match[1], match[2])
        end     == Find(text, <<NL>>, match[2]) + 1
        first   == run_to_first_yield(
                       split_delimited_frame(Parens, LiteralSplit(NL),
                                             SliceFrom(text, end)))
    IN [comment   |-> comment,
        next_line |-> IF ~Contains(comment, ClassTag)
                      THEN IF first.out = << >> THEN << >> ELSE first.out[1]
                      ELSE Slice(text, end, Find(text, <<NL>>, end))]

get_doc_comments_frame(text) ==
    [pc |-> "scan", text |-> text, pos |-> 0, matches |-> << >>, pairs |-> << >>]

\* One match of re.finditer and its pair, or the end of the scan.
get_doc_comments_step(f) ==
    LET match == next_match(f.text, f.pos) IN
    IF match[1] = -1 THEN [f EXCEPT !.pc = "done"]
    ELSE [f EXCEPT !.matches = Append(@, match),
                   !.pairs   = Append(@, make_pair(f.text, match)),
                   !.pos     = match[2]]

(***************************************************************************)
(* The regular expressions and string methods that the comment parsers     *)
(* use, on sequences of characters: \s and str.strip (Whitespace), \w      *)
(* (Word), str.split(sep), sep.join(list), str.replace.                    *)
(***************************************************************************)
Whitespace == {" ", NL, "\t"}

Word ==
    {"a", "b", "c", "d", "e", "f", "g", "h", "i", "j", "k", "l", "m",
     "n", "o", "p", "q", "r", "s", "t", "u", "v", "w", "x", "y", "z",
     "A", "B", "C", "D", "E", "F", "G", "H", "I", "J", "K", "L", "M",
     "N", "O", "P", "Q", "R", "S", "T", "U", "V", "W", "X", "Y", "Z",
     "0", "1", "2", "3", "4", "5", "6", "7", "8", "9", "_"}

RECURSIVE lstrip(_)
lstrip(s) == IF s # << >> /\ Head(s) \in Whitespace THEN lstrip(Tail(s)) ELSE s

RECURSIVE rstrip(_)
rstrip(s) == IF s # << >> /\ Last(s) \in Whitespace THEN rstrip(Front(s)) ELSE s

strip(s) == rstrip(lstrip(s))

\* The end of the longest run of characters of class at position i.
RECURSIVE skip(_, _, _)
skip(s, class, i) ==
    IF i < Len(s) /\ At(s, i) \in class THEN skip(s, class, i + 1) ELSE i

\* s.split(sep) for a one-character sep.
RECURSIVE split(_, _)
split(s, sep) ==
    LET i == Find(s, <<sep>>, 0) IN
    IF i = -1 THEN <<s>> ELSE <<Slice(s, 0, i)>> \o split(SliceFrom(s, i + 1), sep)

\* The first position at or after i that holds a character of class.
RECURSIVE skip_to(_, _, _)
skip_to(s, class, i) ==
    IF i < Len(s) /\ At(s, i) \notin class THEN skip_to(s, class, i + 1) ELSE i

\* s.split(): the runs of characters that are not whitespace.
RECURSIVE split_whitespace(_)
split_whitespace(s) ==
    LET t == lstrip(s)
        e == skip_to(t, Whitespace, 0) IN
    IF t = << >> THEN << >> ELSE <<Slice(t, 0, e)>> \o split_whitespace(SliceFrom(t, e))

\* sep.join(segments)
RECURSIVE join(_, _)
join(sep, segments) ==
    IF segments = << >> THEN << >>
    ELSE IF Len(segments) = 1 THEN segments[1]
    ELSE segments[1] \o sep \o join(sep, Tail(segments))

\* s.replace(old, new)
RECURSIVE replace(_, _, _)
replace(s, old, new) ==
    LET i == Find(s, old, 0) IN
    IF i = -1 THEN s
    ELSE Slice(s, 0, i) \o new \o replace(SliceFrom(s, i + Len(old)), old, new)

startswith(s, prefix) == StartsAt(s, prefix, 0)

endswith(s, suffix) == Len(suffix) <= Len(s) /\ StartsAt(s, suffix, Len(s) - Len(suffix))

(***************************************************************************)
(* strip_stars, split_tag, guess_function_name, guess_parameters and       *)
(* parse_comment (src/pyjsdoc.py, 236-323).                                *)
(* A tag value is None, a string or a list of values; the tag map is a     *)
(* function from tag names to values.                                      *)
(***************************************************************************)
None == [kind |-> "none", str |-> << >>, list |-> << >>]

Str(s) == [kind |-> "str", str |-> s, list |-> << >>]

List(l) == [kind |-> "list", str |-> << >>, list |-> l]

\* re.sub('\n\s*?\*\s*?', '\n', s): a newline, the whitespace up to the
\* next star and that star become a newline (the trailing \s*? is lazy at
\* the end of the pattern and takes nothing).
RECURSIVE sub_stars(_, _)
sub_stars(s, i) ==
    IF i >= Len(s) THEN << >>
    ELSE LET j == skip(s, Whitespace, i + 1) IN
         IF At(s, i) = NL /\ j < Len(s) /\ At(s, j) = "*"
         THEN <<NL>> \o sub_stars(s, j + 1)
         ELSE <<At(s, i)>> \o sub_stars(s, i + 1)

strip_stars(doc_comment) == strip(sub_stars(Slice(doc_comment, 3, -2), 0))

\* re.split('\s+', section, 1), then the strip of both parts.
split_tag(section) ==
    LET spaces == {i \in 0..(Len(section) - 1) : At(section, i) \in Whitespace} IN
    IF spaces = {} THEN [tag |-> strip(section), body |-> << >>]
    ELSE LET i == CHOOSE x \in spaces : \A y \in spaces : x <= y IN
         [tag  |-> strip(Slice(section, 0, i)),
          body |-> strip(SliceFrom(section, skip(section, Whitespace, i)))]

Function == <<"f", "u", "n", "c", "t", "i", "o", "n">>

\* The three FUNCTION_REGEXPS: where each one matches at position i (the
\* group it captures, as (start, end)), or (-1, -1).
function_keyword_name(s, i) ==
    LET w == i + Len(Function) + 1 IN
    IF StartsAt(s, Function \o <<" ">>, i) /\ skip(s, Word, w) > w
    THEN <<w, skip(s, Word, w)>> ELSE <<-1, -1>>

property_function_name(s, i) ==
    LET e == skip(s, Word, i) IN
    IF /\ e > i
       /\ StartsAt(s, <<":">>, e)
       /\ e + 1 < Len(s) /\ At(s, e + 1) \in Whitespace
       /\ StartsAt(s, Function, e + 2)
    THEN <<i, e>> ELSE <<-1, -1>>

assigned_function_name(s, i) ==
    LET e == skip(s, Word, i + 1)
        q == skip(s, Whitespace, e) IN
    IF /\ StartsAt(s, <<".">>, i)
       /\ e > i + 1
       /\ StartsAt(s, <<"=">>, q)
       /\ StartsAt(s, Function, skip(s, Whitespace, q + 1))
    THEN <<i + 1, e>> ELSE <<-1, -1>>

\* re.search of one of them: the group of the leftmost match, or None.
search_name(s, regexp) ==
    LET at(i) == IF regexp = 1 THEN function_keyword_name(s, i)
                 ELSE IF regexp = 2 THEN property_function_name(s, i)
                 ELSE assigned_function_name(s, i)
        hits  == {i \in 0..(Len(s) - 1) : at(i)[1] # -1} IN
    IF hits = {} THEN None
    ELSE LET i == CHOOSE x \in hits : \A y \in hits : x <= y IN
         Str(Slice(s, at(i)[1], at(i)[2]))

guess_function_name(next_line) ==
    IF search_name(next_line, 1) # None THEN search_name(next_line, 1)
    ELSE IF search_name(next_line, 2) # None THEN search_name(next_line, 2)
    ELSE search_name(next_line, 3)

\* re.search('\(([\w\s,]+)\)', next_line), the group split at the commas.
guess_parameters(next_line) ==
    LET inside == Word \cup Whitespace \cup {","}
        hits   == {i \in 0..(Len(next_line) - 1) :
                      /\ At(next_line, i) = "("
                      /\ skip(next_line, inside, i + 1) > i + 1
                      /\ StartsAt(next_line, <<")">>, skip(next_line, inside, i + 1))} IN
    IF hits = {} THEN None
    ELSE LET i    == CHOOSE x \in hits : \A y \in hits : x <= y
             args == split(Slice(next_line, i + 1, skip(next_line, inside, i + 1)), ",") IN
         List([k \in 1..Len(args) |-> Str(strip(args[k]))])

\* re.split('\n\s*@', doc_comment), scanning from position i with the
\* current section starting at last.
RECURSIVE split_sections(_, _, _)
split_sections(s, last, i) ==
    IF i >= Len(s) THEN <<SliceFrom(s, last)>>
    ELSE LET j == skip(s, Whitespace, i + 1) IN
         IF At(s, i) = NL /\ StartsAt(s, <<"@">>, j)
         THEN <<Slice(s, last, i)>> \o split_sections(s, j + 1, j + 1)
         ELSE split_sections(s, last, i + 1)

Doc == <<"d", "o", "c">>

GuessedFunction ==
    <<"g", "u", "e", "s", "s", "e", "d", "_", "f", "u", "n", "c", "t", "i", "o", "n">>

GuessedParams ==
    <<"g", "u", "e", "s", "s", "e", "d", "_", "p", "a", "r", "a", "m", "s">>

\* A parser that stores every tag as a list from its first occurrence.
add_section_as_list(tags, section) ==
    LET t == split_tag(section) IN
    IF t.tag \in DOMAIN tags
    THEN LET existing == tags[t.tag] IN
         IF existing.kind = "list"
         THEN [tags EXCEPT ![t.tag] = List(Append(existing.list, Str(t.body)))]
         ELSE [tags EXCEPT ![t.tag] = List(<<existing, Str(t.body)>>)]
    ELSE (t.tag :> List(<<Str(t.body)>>)) @@ tags

\* A parser that puts a repeated tag's latest body first.
add_section_prepend(tags, section) ==
    LET t == split_tag(section) IN
    IF t.tag \in DOMAIN tags
    THEN LET existing == tags[t.tag] IN
         IF existing.kind = "list"
         THEN [tags EXCEPT ![t.tag] = List(<<Str(t.body)>> \o existing.list)]
         ELSE [tags EXCEPT ![t.tag] = List(<<Str(t.body), existing>>)]
    ELSE (t.tag :> Str(t.body)) @@ tags

\* The body of "for section in sections[1:]": a list takes the append, a
\* string or None has no append (AttributeError) and becomes a list.
add_section(tags, section) ==
    LET t == split_tag(section) IN
    IF t.tag \in DOMAIN tags
    THEN LET existing == tags[t.tag] IN
         IF existing.kind = "list"
         THEN [tags EXCEPT ![t.tag] = List(Append(existing.list, Str(t.body)))]
         ELSE [tags EXCEPT ![t.tag] = List(<<existing, Str(t.body)>>)]
    ELSE (t.tag :> Str(t.body)) @@ tags

RECURSIVE add_sections(_, _)
add_sections(tags, sections) ==
    IF sections = << >> THEN tags
    ELSE add_sections(add_section(tags, Head(sections)), Tail(sections))

parse_comment(doc_comment, next_line) ==
    LET sections == split_sections(doc_comment, 0, 0) IN
    add_sections((Doc :> Str(strip(sections[1])))
                     @@ (GuessedFunction :> guess_function_name(next_line))
                     @@ (GuessedParams :> guess_parameters(next_line)),
                 Tail(sections))

(***************************************************************************)
(* CommentDoc, FunctionDoc and ParamDoc (src/pyjsdoc.py, 806-1110 and      *)
(* 1265-1301).  A ParamDoc is a record of its three fields; raised names   *)
(* the exception that left the constructor or the property, if any.        *)
(***************************************************************************)
Braces == <<"{", "}">>

Param == <<"p", "a", "r", "a", "m">>

Argument == <<"a", "r", "g", "u", "m", "e", "n", "t">>

Return == <<"r", "e", "t", "u", "r", "n">>

Returns == <<"r", "e", "t", "u", "r", "n", "s">>

Type == <<"t", "y", "p", "e">>

\* bool(value)
truthy(value) ==
    \/ value.kind = "str" /\ value.str # << >>
    \/ value.kind = "list" /\ value.list # << >>

\* CommentDoc.get(tag_name, default)
get(parsed, tag_name, default) ==
    IF tag_name \in DOMAIN parsed THEN parsed[tag_name] ELSE default

\* CommentDoc.get_as_list(tag_name)
get_as_list(parsed, tag_name) ==
    LET val == get(parsed, tag_name, List(<< >>)) IN
    IF val.kind = "list" THEN val.list ELSE <<val>>

IndexError(r) == [r EXCEPT !.raised = "IndexError"]

no_param == [raised |-> "none", type |-> << >>, name |-> << >>, doc |-> << >>]

\* A ParamDoc that takes the first token for the name, braced or not.
ParamDoc_untyped(text) ==
    LET parsed == run_split_delimited(
                      split_delimited_frame(Braces, LiteralSplit(" "), text)).out IN
    [no_param EXCEPT !.name = parsed[1], !.doc = join(<<" ">>, Tail(parsed))]

\* ParamDoc.__init__(text); parsed[1] of a one-token list is an IndexError.
ParamDoc(text) ==
    LET parsed == run_split_delimited(
                      split_delimited_frame(Braces, LiteralSplit(" "), text)).out IN
    IF startswith(parsed[1], <<"{">>) /\ endswith(parsed[1], <<"}">>)
    THEN IF Len(parsed) < 2 THEN IndexError(no_param)
         ELSE [no_param EXCEPT !.type = Slice(parsed[1], 1, -1),
                               !.name = parsed[2],
                               !.doc  = join(<<" ">>, SubSeq(parsed, 3, Len(parsed)))]
    ELSE [no_param EXCEPT !.name = parsed[1], !.doc = join(<<" ">>, Tail(parsed))]

\* FunctionDoc.name: get('guessed_function') or get('function')
FunctionDoc_name(parsed) ==
    IF truthy(get(parsed, GuessedFunction, Str(<< >>)))
    THEN get(parsed, GuessedFunction, Str(<< >>))
    ELSE get(parsed, Function, Str(<< >>))

\* [ParamDoc(text) for text in tag_texts]; the first exception ends it.
param_docs(tag_texts) ==
    LET docs == [k \in 1..Len(tag_texts) |-> ParamDoc(tag_texts[k].str)] IN
    IF \E k \in 1..Len(docs) : docs[k].raised # "none"
    THEN [raised |-> "IndexError", list |-> << >>]
    ELSE [raised |-> "none", list |-> docs]

\* [param_dict.get(name) or ParamDoc('{} ' + name) for name in guessed]:
\* param_dict keeps the last ParamDoc of each name.
merge_guessed(docs, guessed) ==
    [g \in 1..Len(guessed) |->
        LET named == {k \in 1..Len(docs) : docs[k].name = guessed[g].str} IN
        IF named # {} THEN docs[CHOOSE k \in named : \A j \in named : j <= k]
        ELSE ParamDoc(<<"{", "}", " ">> \o guessed[g].str)]

\* FunctionDoc.params
FunctionDoc_params(parsed) ==
    LET tag_texts == get_as_list(parsed, Param) \o get_as_list(parsed, Argument)
        explicit  == param_docs(tag_texts)
        guessed   == get(parsed, GuessedParams, Str(<< >>)) IN
    IF explicit.raised # "none" \/ guessed = None THEN explicit
    ELSE [raised |-> "none", list |-> merge_guessed(explicit.list, guessed.list)]

\* FunctionDoc.return_val
FunctionDoc_return_val(parsed) ==
    LET ret  == IF truthy(get(parsed, Return, Str(<< >>)))
                THEN get(parsed, Return, Str(<< >>))
                ELSE get(parsed, Returns, Str(<< >>))
        type == get(parsed, Type, Str(<< >>)) IN
    IF Contains(ret.str, <<"{">>) /\ Contains(ret.str, <<"}">>)
    THEN ParamDoc(IF ~Contains(ret.str, <<"}", " ", " ">>)
                  THEN replace(ret.str, <<"}", " ">>, <<"}", " ", " ">>)
                  ELSE ret.str)
    ELSE IF truthy(ret) /\ truthy(type)
    THEN ParamDoc(<<"{">> \o type.str \o <<"}", " ", " ">> \o ret.str)
    ELSE ParamDoc(ret.str)

\* FunctionDoc.exceptions.make_param(text); word_split[1] of a one-token
\* list and word_split[0] of an empty list are IndexErrors.
make_param(text) ==
    IF Contains(text, <<"{">>) /\ Contains(text, <<"}">>)
    THEN LET word_split == run_split_delimited(
                               split_delimited_frame(Braces, LiteralSplit(" "), text)).out IN
         IF Len(word_split) < 2 THEN IndexError(no_param)
         ELSE IF word_split[2] # << >>
         THEN ParamDoc(join(<<" ">>, <<word_split[1], << >>>> \o Tail(word_split)))
         ELSE ParamDoc(text)
    ELSE LET word_split == split_whitespace(text) IN
         IF word_split = << >> THEN IndexError(no_param)
         ELSE ParamDoc(<<"{">> \o word_split[1] \o <<"}", " ", " ">>
                           \o join(<<" ">>, Tail(word_split)))

(***************************************************************************)
(* FileDoc, ModuleDoc and ClassDoc (src/pyjsdoc.py, 602-676, 751-764,      *)
(* 850-860 and 1178-1218).  An entity is a record of its class (kind), its *)
(* parsed comment and, for a ClassDoc, the methods added to it.  comments  *)
(* maps names to entities, order lists the names as they were added, k is  *)
(* the comment __init__ is at, mi the position of its walk over            *)
(* self.methods, warnings the calls of warn.                               *)
(***************************************************************************)
FileOverview == <<"f", "i", "l", "e", "o", "v", "e", "r", "v", "i", "e", "w">>

Class == <<"c", "l", "a", "s", "s">>

Constructor == <<"c", "o", "n", "s", "t", "r", "u", "c", "t", "o", "r">>

Member == <<"m", "e", "m", "b", "e", "r">>

ModuleDoc(parsed) == [kind |-> "ModuleDoc", parsed |-> parsed, methods |-> << >>]

FunctionDoc(parsed) == [kind |-> "FunctionDoc", parsed |-> parsed, methods |-> << >>]

ClassDoc(parsed) == [kind |-> "ClassDoc", parsed |-> parsed, methods |-> << >>]

\* The "continue" of FileDoc.__init__: no object is made.
NoEntity == [kind |-> "none", parsed |-> << >>, methods |-> << >>]

\* ClassDoc.name: get('class') or get('constructor')
ClassDoc_name(parsed) ==
    IF truthy(get(parsed, Class, Str(<< >>)))
    THEN get(parsed, Class, Str(<< >>))
    ELSE get(parsed, Constructor, Str(<< >>))

\* obj.name, by the class of obj; a ModuleDoc is always 'file_overview'.
name(obj) ==
    IF obj.kind = "ModuleDoc"
    THEN Str(<<"f", "i", "l", "e", "_", "o", "v", "e", "r", "v", "i", "e", "w">>)
    ELSE IF obj.kind = "FunctionDoc" THEN FunctionDoc_name(obj.parsed)
    ELSE ClassDoc_name(obj.parsed)

\* FunctionDoc.member
member(obj) == get(obj.parsed, Member, Str(<< >>))

RECURSIVE run_get_doc_comments(_)
run_get_doc_comments(f) ==
    IF f.pc = "done" THEN f ELSE run_get_doc_comments(get_doc_comments_step(f))

FileDoc_frame(file_text) ==
    LET pairs == run_get_doc_comments(get_doc_comments_frame(file_text)).pairs IN
    [pc       |-> IF pairs = << >> THEN "link" ELSE "comments",
     text     |-> file_text,
     pairs    |-> pairs,
     k        |-> 1,
     is_first |-> TRUE,
     order    |-> << >>,
     comments |-> (name(ModuleDoc(<< >>)).str :> ModuleDoc(<< >>)),
     mi       |-> 1,
     warnings |-> << >>]

\* A classifier that tries the class tag before the function tags.
classify_class_first(raw, is_first) ==
    IF FileOverview \in DOMAIN raw THEN ModuleDoc(raw)
    ELSE IF truthy(get(raw, Class, None)) THEN ClassDoc(raw)
    ELSE IF truthy(get(raw, Function, None)) \/ truthy(get(raw, GuessedFunction, None))
    THEN FunctionDoc(raw)
    ELSE IF is_first THEN ModuleDoc(raw)
    ELSE NoEntity

\* The if/elif chain of FileDoc.__init__.
classify(raw, is_first) ==
    IF FileOverview \in DOMAIN raw THEN ModuleDoc(raw)
    ELSE IF truthy(get(raw, Function, None)) \/ truthy(get(raw, GuessedFunction, None))
    THEN FunctionDoc(raw)
    ELSE IF truthy(get(raw, Class, None)) THEN ClassDoc(raw)
    ELSE IF is_first THEN ModuleDoc(raw)
    ELSE NoEntity

\* One pass of "for comment, next_line in get_doc_comments(file_text)".
FileDoc_comment(f) ==
    LET pair == f.pairs[f.k]
        raw  == parse_comment(strip_stars(pair.comment), pair.next_line)
        obj  == classify(raw, f.is_first)
        next == [f EXCEPT !.k = @ + 1,
                          !.pc = IF f.k = Len(f.pairs) THEN "link" ELSE @] IN
    IF obj = NoEntity THEN next
    ELSE [next EXCEPT !.order    = Append(@, name(obj).str),
                      !.comments = (name(obj).str :> obj) @@ @,
                      !.is_first = FALSE]

\* FileDoc.__iter__
FileDoc_iter(f) == [i \in 1..Len(f.order) |-> f.comments[f.order[i]]]

\* One pass of "for method in self.methods", self.methods walking the
\* iteration of the file and keeping the FunctionDocs that have a member:
\* KeyError is passed over, AttributeError (no add_method) is warned about.
FileDoc_link(f) ==
    LET method == FileDoc_iter(f)[f.mi]
        next   == [f EXCEPT !.mi = @ + 1] IN
    IF ~(method.kind = "FunctionDoc" /\ truthy(member(method))) THEN next
    ELSE IF member(method).str \notin DOMAIN f.comments THEN next
    ELSE IF f.comments[member(method).str].kind # "ClassDoc"
    THEN [next EXCEPT !.warnings = Append(@, <<member(method).str, name(method).str>>)]
    ELSE [next EXCEPT !.comments[member(method).str].methods = Append(@, method)]

(***************************************************************************)
(* DEPENDENCIES (src/pyjsdoc.py, 1329-1418).                               *)
(* lookup[file] stands for js_doc[file].module.dependencies: the list of   *)
(* the file's @dependency tags, in declaration order, repeats kept.        *)
(***************************************************************************)
NoException == [type |-> "none"]

CyclicDependency(remaining_dependencies) ==
    [type |-> "CyclicDependency", values |-> remaining_dependencies]

\* The exception built with its two arguments exchanged.
MissingDependencySwapped(file, dependency) ==
    [type |-> "MissingDependency", file |-> dependency, dependency |-> file]

MissingDependency(file, dependency) ==
    [type |-> "MissingDependency", file |-> file, dependency |-> dependency]

\* The locals of build_dependency_graph and topological_sort at the call.
\* dependencies maps a file to its (in-degree, edges) pair.
find_dependencies_frame(start_nodes) ==
    [pc           |-> "add_start",
     start_nodes  |-> start_nodes,
     si           |-> 1,
     queue        |-> << >>,
     qi           |-> 1,
     dependencies |-> << >>,
     start_sort   |-> << >>,
     retval       |-> << >>,
     raised       |-> NoException]

\* A vertex whose in-degree counts each dependency once, however often
\* the file declares it.
add_vertex_distinct(g, file, lookup) ==
    LET n == Cardinality(Range(lookup[file])) IN
    [g EXCEPT !.dependencies = (file :> [in_degree |-> n, edges |-> << >>]) @@ @,
              !.queue        = Append(@, file),
              !.start_sort   = IF n = 0 THEN Append(@, file) ELSE @]

add_vertex(g, file, lookup) ==
    LET n == Len(lookup[file]) IN
    [g EXCEPT !.dependencies = (file :> [in_degree |-> n, edges |-> << >>]) @@ @,
              !.queue        = Append(@, file),
              !.start_sort   = IF n = 0 THEN Append(@, file) ELSE @]

add_edge(g, from_file, to_file) ==
    [g EXCEPT !.dependencies[from_file].edges = Append(@, to_file)]

is_in_graph(g, file) == file \in DOMAIN g.dependencies

\* One pass of "for file in start_nodes: add_vertex(file)".
add_start_vertex(g, lookup) ==
    LET g1 == add_vertex(g, g.start_nodes[g.si], lookup) IN
    [g1 EXCEPT !.si = @ + 1,
               !.pc = IF g.si = Len(g.start_nodes) THEN "discover" ELSE @]

\* A discovery that follows only the first dependency a file declares.
visit_first_dependency(g, file, deps, lookup) ==
    IF deps = << >> THEN g
    ELSE LET dependency == Head(deps) IN
         IF dependency \notin DOMAIN lookup
         THEN [g EXCEPT !.raised = [type |-> "MissingDependency", file |-> file,
                                    dependency |-> dependency],
                        !.pc = "raised"]
         ELSE LET g1 == IF dependency \in DOMAIN g.dependencies THEN g
                        ELSE [g EXCEPT
                                !.dependencies =
                                    (dependency :> [in_degree |-> Len(lookup[dependency]),
                                                    edges |-> << >>]) @@ @,
                                !.queue = Append(@, dependency),
                                !.start_sort = IF Len(lookup[dependency]) = 0
                                               THEN Append(@, dependency) ELSE @]
              IN [g1 EXCEPT !.dependencies[dependency].edges = Append(@, file)]

\* The inner loop over the dependencies of one file of the queue.
RECURSIVE visit_dependencies(_, _, _, _)
visit_dependencies(g, file, deps, lookup) ==
    IF deps = << >> THEN g
    ELSE LET dependency == Head(deps) IN
         IF dependency \notin DOMAIN lookup
         THEN [g EXCEPT !.raised = MissingDependency(file, dependency),
                        !.pc = "raised"]
         ELSE visit_dependencies(
                  add_edge(IF is_in_graph(g, dependency) THEN g
                           ELSE add_vertex(g, dependency, lookup),
                           dependency, file),
                  file, Tail(deps), lookup)

\* One pass of "for file in queue", the queue growing while it is walked;
\* when the walk ends, build_dependency_graph returns and the sort starts.
discover(g, lookup) ==
    IF g.qi > Len(g.queue) THEN [g EXCEPT !.pc = "sort"]
    ELSE LET file == g.queue[g.qi]
             g1   == visit_dependencies(g, file, lookup[file], lookup) IN
         IF g1.pc = "raised" THEN g1 ELSE [g1 EXCEPT !.qi = @ + 1]

edges(dependencies, node) == dependencies[node].edges

in_degree(dependencies, node) == dependencies[node].in_degree

remove_incoming(dependencies, node) ==
    [dependencies EXCEPT ![node].in_degree = in_degree(dependencies, node) - 1]

\* A sorter that readies a child as soon as one of its dependencies is out.
RECURSIVE release_children_eager(_, _)
release_children_eager(g, children) ==
    IF children = << >> THEN g
    ELSE LET child == Head(children)
             d1    == [g.dependencies EXCEPT ![child].in_degree = @ - 1] IN
         release_children_eager(
             [g EXCEPT !.dependencies = d1,
                       !.start_sort = IF child \in Range(@) \/ child \in Range(g.retval)
                                      THEN @ ELSE Append(@, child)],
             Tail(children))

\* "for child in edges(node)": a child whose in-degree reaches zero is ready.
RECURSIVE release_children(_, _)
release_children(g, children) ==
    IF children = << >> THEN g
    ELSE LET child == Head(children)
             d1    == remove_incoming(g.dependencies, child) IN
         release_children(
             [g EXCEPT !.dependencies = d1,
                       !.start_sort = IF in_degree(d1, child) = 0
                                      THEN Append(@, child) ELSE @],
             Tail(children))

\* A sorter that puts each node it pops at the front of the result.
sort_pop_prepend(g) ==
    LET node == Last(g.start_sort) IN
    release_children([g EXCEPT !.start_sort = Front(@),
                               !.retval = <<node>> \o @],
                     g.dependencies[node].edges)

\* One pass of "while start_nodes": pop the last ready node.
sort_pop(g) ==
    LET node == Last(g.start_sort) IN
    release_children([g EXCEPT !.start_sort = Front(@),
                               !.retval = Append(@, node)],
                     edges(g.dependencies, node))

\* A leftover test that overlooks the nodes with one unresolved dependency.
leftover_nodes_above_one(g) ==
    {node \in DOMAIN g.dependencies : g.dependencies[node].in_degree > 1}

\* The nodes the sort could not order.  The program lists them in the order
\* of the dictionary's keys; the model keeps the set of them.
leftover_nodes(g) ==
    {node \in DOMAIN g.dependencies : in_degree(g.dependencies, node) > 0}

sort_finish(g) ==
    IF leftover_nodes(g) # {}
    THEN [g EXCEPT !.raised = CyclicDependency(leftover_nodes(g)), !.pc = "raised"]
    ELSE [g EXCEPT !.pc = "returned"]

\* A sort that, left with nodes it cannot order, waits for them to get
\* ready.
topological_sort_waits(g) ==
    IF g.start_sort # << >> THEN sort_pop(g)
    ELSE IF leftover_nodes(g) # {} THEN g
    ELSE sort_finish(g)

topological_sort(g) ==
    IF g.start_sort # << >> THEN sort_pop(g) ELSE sort_finish(g)

find_dependencies_step(g, lookup) ==
    CASE g.pc = "add_start" ->
             IF g.start_nodes = << >> THEN [g EXCEPT !.pc = "discover"]
             ELSE add_start_vertex(g, lookup)
      [] g.pc = "discover"  -> discover(g, lookup)
      [] g.pc = "sort"      -> topological_sort(g)
      [] OTHER              -> g

Finished(g) == g.pc \in {"returned", "raised"}

RECURSIVE run_find_dependencies(_, _)
run_find_dependencies(g, lookup) ==
    IF Finished(g) THEN g
    ELSE run_find_dependencies(find_dependencies_step(g, lookup), lookup)

\* find_dependencies(start_nodes, js_doc): the final frame, which holds the
\* list returned (retval) or the exception raised.
find_dependencies(start_nodes, lookup) ==
    run_find_dependencies(find_dependencies_frame(start_nodes), lookup)

\* The lookups: three files that declare at most MaxEdges dependencies.
Lookups ==
    {("a" :> la) @@ ("b" :> lb) @@ ("c" :> lc) :
        <<la, lb, lc>> \in
            {t \in SeqsUpTo(Keys, MaxEdges) \X SeqsUpTo(Keys, MaxEdges)
                                            \X SeqsUpTo(Keys, MaxEdges) :
                Len(t[1]) + Len(t[2]) + Len(t[3]) <= MaxEdges}}

(***************************************************************************)
(* main and CodeBaseDoc (src/pyjsdoc.py, 354-390 and 1558-1593).           *)
(* opts is the set of the options on the command line; args are the file   *)
(* names left on it.  all_dependencies[f] is the    *)
(* field set_all_dependencies stores on the module overview of file f.     *)
(***************************************************************************)
\* The options getopt.gnu_getopt accepts; any other raises GetoptError.
KnownOptions ==
    {"-p", "-o", "-j", "-d", "-t", "--jspath", "--output", "--private",
     "--json", "--dependencies", "--test", "--help"}

OptionSets == {{}, {"--json"}, {"-d"}, {"--help"}, {"--bogus"}}

ArgLists == {<< >>, <<"a", "q">>, <<"q">>}

idle_main ==
    [pc               |-> "idle",
     opts             |-> {},
     args             |-> << >>,
     all_dependencies |-> << >>,
     selected_files   |-> {},
     printed          |-> << >>,
     json             |-> << >>,
     exit_code        |-> -1,
     uncaught         |-> NoException]

main_frame(opts, args) ==
    [idle_main EXCEPT !.pc = "getopt", !.opts = opts, !.args = args]

\* sys.exit(code), or falling off the end of main (code 0).
exit(m, code) == [m EXCEPT !.pc = "exit", !.exit_code = code]

\* An exception no handler of main catches: the interpreter prints the
\* traceback and ends with status 1.
propagate(m, exception) ==
    [m EXCEPT !.pc = "exit", !.exit_code = 1, !.uncaught = exception]

\* run_and_exit_if(opts, action, *names), for an action that writes only.
run_and_exit_if(opts, names) == opts \cap names # {}

\* One pass of "for module in self.values()" of _build_dependencies; after
\* the last one _build_superclass_lists runs, which touches class entities
\* only, and the constructor returns.
build_dependencies(m, module, lookup) ==
    LET r == find_dependencies(<<module>>, lookup) IN
    IF r.pc = "raised" THEN propagate(m, r.raised)
    ELSE [m EXCEPT !.all_dependencies = (module :> r.retval) @@ @,
                   !.pc = IF DOMAIN lookup \ DOMAIN m.all_dependencies = {module}
                          THEN "select" ELSE @]

selected_files(m, docs) ==
    IF m.args # << >> THEN DOMAIN docs \cap Range(m.args) ELSE DOMAIN docs

\* The files argument of to_dict and to_json when it is left out.
Omitted == [passed |-> FALSE, keys |-> {}]

Passed(files) == [passed |-> TRUE, keys |-> files]

KeyError == [type |-> "KeyError"]

\* CodeBaseDoc.to_dict(files): "keys = files or self.keys()", then a dict
\* of self[key].to_dict() by key; self[key] raises KeyError for a key that
\* is no file. docs gives each file's to_dict().
to_dict(docs, files) ==
    LET keys == IF files.passed /\ files.keys # {} THEN files.keys ELSE DOMAIN docs IN
    IF keys \subseteq DOMAIN docs
    THEN [raised |-> NoException, dict |-> [key \in keys |-> docs[key]]]
    ELSE [raised |-> KeyError, dict |-> << >>]

\* print_json: docs.to_json(selected_files) is printed.
print_json(m, docs) ==
    LET r == to_dict(docs, Passed(m.selected_files)) IN
    IF r.raised # NoException THEN propagate(m, r.raised)
    ELSE exit([m EXCEPT !.json = r.dict], 0)

\* print_dependencies, called with the selected files in the list order s.
print_dependencies(m, s, lookup) ==
    LET r == find_dependencies(s, lookup) IN
    IF r.pc = "raised" THEN propagate(m, r.raised)
    ELSE exit([m EXCEPT !.printed = r.retval], 0)

\* The iteration orders a set of keys can have.
Orders(S) == {s \in SeqsUpTo(S, Cardinality(S)) : Range(s) = S /\ NoDup(s)}

(***************************************************************************)
(* CodeBaseDoc (src/pyjsdoc.py, 337-506): the dictionary of FileDocs, the  *)
(* superclass lists and translate_ref_to_url.  files is the sequence of    *)
(* the dictionary's values in its iteration order.  A class object is      *)
(* referred to by <<i, n>>: the entity that files[i].comments holds under  *)
(* the name n.                                                             *)
(***************************************************************************)
Extends == <<"e", "x", "t", "e", "n", "d", "s">>

Base == <<"b", "a", "s", "e">>

Hash == "#"

JsExt == <<".", "j", "s">>

HtmlExt == <<".", "h", "t", "m", "l">>

RECURSIVE run_FileDoc(_)
run_FileDoc(f) ==
    IF f.pc = "comments" THEN run_FileDoc(FileDoc_comment(f))
    ELSE IF f.pc = "link" /\ f.mi <= Len(f.order) THEN run_FileDoc(FileDoc_link(f))
    ELSE f

\* FileDoc(file_name, file_text), once the constructor has returned.
FileDoc(file_name, file_text) ==
    LET f == run_FileDoc(FileDoc_frame(file_text)) IN
    [name |-> file_name, order |-> f.order, comments |-> f.comments]

trim_js_ext(filename) ==
    IF endswith(filename, JsExt) THEN Slice(filename, 0, -3) ELSE filename

\* FileDoc.url
FileDoc_url(file_doc) == trim_js_ext(file_doc.name) \o HtmlExt

\* CommentDoc.url
url(obj) == <<Hash>> \o name(obj).str

is_function(comment) == comment.kind = "FunctionDoc" /\ ~truthy(member(comment))

is_method(comment) == comment.kind = "FunctionDoc" /\ truthy(member(comment))

is_class(comment) == comment.kind = "ClassDoc"

\* FileDoc.functions
functions(file_doc) == SelectSeq(FileDoc_iter(file_doc), is_function)

\* FileDoc.classes
classes(file_doc) == SelectSeq(FileDoc_iter(file_doc), is_class)

\* ClassDoc.superclass
superclass(obj) ==
    IF truthy(get(obj.parsed, Extends, Str(<< >>)))
    THEN get(obj.parsed, Extends, Str(<< >>))
    ELSE get(obj.parsed, Base, Str(<< >>))

\* ClassDoc.get_method(method_name), None when there is none.
get_method(cls, method_name) ==
    LET hits == {k \in 1..Len(cls.methods) : name(cls.methods[k]) = Str(method_name)} IN
    IF hits = {} THEN NoEntity
    ELSE cls.methods[CHOOSE k \in hits : \A j \in hits : k <= j]

\* The (name, class) pairs that _module_index('classes') feeds to dict(),
\* as references, file by file and in textual order within a file.
RECURSIVE class_items(_, _)
class_items(files, i) ==
    IF i > Len(files) THEN << >>
    ELSE LET cs == classes(files[i]) IN
         [k \in 1..Len(cs) |-> <<i, name(cs[k]).str>>] \o class_items(files, i + 1)

\* CodeBaseDoc.all_classes: of two classes of one name the later one stays.
all_classes(files) ==
    LET items == class_items(files, 1) IN
    [n \in {items[k][2] : k \in 1..Len(items)} |->
        items[CHOOSE k \in 1..Len(items) :
                 /\ items[k][2] = n
                 /\ \A j \in 1..Len(items) : items[j][2] = n => j <= k]]

\* The object a reference stands for.
deref(files, ref) == files[ref[1]].comments[ref[2]]

NoClass == <<0, << >>>>

\* The locals of _build_superclass_lists, and all_superclasses: the
\* attribute of that name of the class objects that have it.
CodeBaseDoc_frame(files) ==
    [pc               |-> "build",
     files            |-> files,
     cls_dict         |-> all_classes(files),
     pending          |-> {all_classes(files)[n] : n \in DOMAIN all_classes(files)},
     cls              |-> NoClass,
     superclass       |-> None,
     superclass_obj   |-> NoClass,
     all_superclasses |-> << >>,
     missing          |-> << >>,
     ref              |-> << >>,
     in_comment       |-> NoEntity,
     result           |-> [raised |-> NoException, url |-> << >>]]

\* "for cls in cls_dict.values()": the next class, and the two statements
\* before its try block.
superclass_lists_next(c, cls) ==
    [c EXCEPT !.pc = "walk",
              !.pending = @ \ {cls},
              !.cls = cls,
              !.all_superclasses = (cls :> << >>) @@ @,
              !.superclass = superclass(deref(c.files, cls))]

\* One test of "while superclass" and the lookup it leads to; KeyError ends
\* the loop and prints the missing name.
superclass_lists_walk(c) ==
    IF ~truthy(c.superclass) THEN [c EXCEPT !.pc = "build"]
    ELSE IF c.superclass.str \notin DOMAIN c.cls_dict
    THEN [c EXCEPT !.pc = "build", !.missing = Append(@, c.superclass.str)]
    ELSE [c EXCEPT !.pc = "append",
                   !.superclass_obj = c.cls_dict[c.superclass.str]]

\* The rest of the pass: the append, and the step to the next superclass.
superclass_lists_append(c) ==
    [c EXCEPT !.pc = "walk",
              !.all_superclasses[c.cls] = Append(@, c.superclass_obj),
              !.superclass = superclass(deref(c.files, c.superclass_obj))]

\* The three lookup_ref closures of translate_ref_to_url; each gives the
\* url within the file, None when the file has no match.
lookup_function(file_doc, method_name) ==
    LET fns  == functions(file_doc)
        hits == {k \in 1..Len(fns) : name(fns[k]) = Str(method_name)} IN
    IF hits = {} THEN None ELSE Str(url(fns[CHOOSE k \in hits : \A j \in hits : k <= j]))

lookup_method(file_doc, class_name, method_name) ==
    LET cs   == classes(file_doc)
        hits == {k \in 1..Len(cs) : /\ name(cs[k]) = Str(class_name)
                                    /\ get_method(cs[k], method_name) # NoEntity} IN
    IF hits = {} THEN None
    ELSE Str(url(get_method(cs[CHOOSE k \in hits : \A j \in hits : k <= j], method_name)))

lookup_class(file_doc, class_name) ==
    LET cs   == classes(file_doc)
        hits == {k \in 1..Len(cs) : name(cs[k]) = Str(class_name)} IN
    IF hits = {} THEN None ELSE Str(url(cs[CHOOSE k \in hits : \A j \in hits : k <= j]))

Returned(u) == [raised |-> NoException, url |-> u]

Raised(exception) == [raised |-> exception, url |-> << >>]

ValueError == [type |-> "ValueError"]

\* "for file_doc in self.values()": the first file whose lookup is truthy.
first_url(files, urls) ==
    LET hits == {i \in 1..Len(files) : truthy(urls[i])} IN
    IF hits = {} THEN Returned(<< >>)
    ELSE LET i == CHOOSE i \in hits : \A j \in hits : i <= j IN
         Returned(FileDoc_url(files[i]) \o urls[i].str)

translate_ref_to_url(files, ref, in_comment) ==
    IF startswith(ref, <<Hash>>)
    THEN LET method_name == SliceFrom(ref, 1) IN
         IF is_method(in_comment) /\ member(in_comment).str \notin DOMAIN all_classes(files)
         THEN Raised(KeyError)
         ELSE LET search_in ==
                      IF is_method(in_comment)
                      THEN deref(files, all_classes(files)[member(in_comment).str])
                      ELSE IF is_class(in_comment) THEN in_comment
                      ELSE NoEntity IN
              IF search_in # NoEntity /\ get_method(search_in, method_name) # NoEntity
              THEN Returned(url(get_method(search_in, method_name)))
              ELSE first_url(files, [i \in 1..Len(files) |->
                                        lookup_function(files[i], method_name)])
    ELSE IF Contains(ref, <<Hash>>)
    THEN IF Len(split(ref, Hash)) # 2 THEN Raised(ValueError)
         ELSE first_url(files, [i \in 1..Len(files) |->
                  lookup_method(files[i], split(ref, Hash)[1], split(ref, Hash)[2])])
    ELSE first_url(files, [i \in 1..Len(files) |-> lookup_class(files[i], ref)])

(***************************************************************************)
(* Specification SpecMain: one run of main.                                *)
(***************************************************************************)
idle_fd == [find_dependencies_frame(<< >>) EXCEPT !.pc = "idle"]

idle_sd ==
    [split_delimited_frame(<< >>, [is_str |-> TRUE, accepts |-> {}], << >>)
        EXCEPT !.pc = "idle"]

idle_gdc == [get_doc_comments_frame(<< >>) EXCEPT !.pc = "idle"]

idle_cdoc ==
    [pc |-> "idle", doc_comment |-> << >>, next_line |-> << >>, parsed |-> << >>,
     name |-> None, params |-> [raised |-> "none", list |-> << >>],
     return_val |-> no_param]

idle_pdoc == [pc |-> "idle", text |-> << >>, param |-> no_param]

idle_fdoc == [FileDoc_frame(<< >>) EXCEPT !.pc = "idle"]

idle_cb == [CodeBaseDoc_frame(<< >>) EXCEPT !.pc = "idle"]

idle_ss == [pc |-> "idle", doc_comment |-> << >>, stripped |-> << >>, again |-> << >>]

InitMain ==
    /\ cdoc = idle_cdoc
    /\ pdoc = idle_pdoc
    /\ fdoc = idle_fdoc
    /\ cb = idle_cb
    /\ ss = idle_ss
    /\ js_doc = << >>
    /\ fd = idle_fd
    /\ sd = idle_sd
    /\ gdc = idle_gdc
    /\ \E opts \in OptionSets, args \in ArgLists :
          main = main_frame(opts, args)

\* getopt.gnu_getopt, and the --test and --help options.
Getopt ==
    /\ main.pc = "getopt"
    /\ main' = IF ~(main.opts \subseteq KnownOptions) THEN exit(main, 2)
               ELSE IF run_and_exit_if(main.opts, {"--test"}) THEN exit(main, 0)
               ELSE IF run_and_exit_if(main.opts, {"--help"}) THEN exit(main, 0)
               ELSE [main EXCEPT !.pc = "populate"]
    /\ UNCHANGED <<js_doc, fd, sd, gdc, cdoc, pdoc, fdoc, ss, cb>>

\* CodeBaseDoc._populate_files: the files found under the root paths.
PopulateFiles ==
    /\ main.pc = "populate"
    /\ js_doc' \in Lookups
    /\ main' = [main EXCEPT !.pc = "build_dependencies"]
    /\ UNCHANGED <<fd, sd, gdc, cdoc, pdoc, fdoc, ss, cb>>

\* CodeBaseDoc._build_dependencies, one module at a time, in the order of
\* the dictionary's values.
BuildDependencies ==
    /\ main.pc = "build_dependencies"
    /\ \E module \in DOMAIN js_doc \ DOMAIN main.all_dependencies :
          main' = build_dependencies(main, module, js_doc)
    /\ UNCHANGED <<js_doc, fd, sd, gdc, cdoc, pdoc, fdoc, ss, cb>>

SelectFiles ==
    /\ main.pc = "select"
    /\ main' = [main EXCEPT !.selected_files = selected_files(main, js_doc),
                            !.pc = "dispatch"]
    /\ UNCHANGED <<js_doc, fd, sd, gdc, cdoc, pdoc, fdoc, ss, cb>>

PrintJson ==
    /\ main.pc = "dispatch"
    /\ run_and_exit_if(main.opts, {"--json", "-j"})
    /\ main' = print_json(main, js_doc)
    /\ UNCHANGED <<js_doc, fd, sd, gdc, cdoc, pdoc, fdoc, ss, cb>>

PrintDependencies ==
    /\ main.pc = "dispatch"
    /\ ~run_and_exit_if(main.opts, {"--json", "-j"})
    /\ run_and_exit_if(main.opts, {"--dependencies", "-d"})
    /\ \E s \in Orders(main.selected_files) :
          main' = print_dependencies(main, s, js_doc)
    /\ UNCHANGED <<js_doc, fd, sd, gdc, cdoc, pdoc, fdoc, ss, cb>>

SaveDocs ==
    /\ main.pc = "dispatch"
    /\ ~run_and_exit_if(main.opts, {"--json", "-j"})
    /\ ~run_and_exit_if(main.opts, {"--dependencies", "-d"})
    /\ main' = exit(main, 0)
    /\ UNCHANGED <<js_doc, fd, sd, gdc, cdoc, pdoc, fdoc, ss, cb>>

NextMain ==
    \/ Getopt \/ PopulateFiles \/ BuildDependencies \/ SelectFiles
    \/ PrintJson \/ PrintDependencies \/ SaveDocs

SpecMain == InitMain /\ [][NextMain]_vars

(***************************************************************************)
(* Specification SpecDeps: one call of find_dependencies, step by step,    *)
(* on every lookup of at most MaxEdges declarations and every start list.  *)
(***************************************************************************)
InitDeps ==
    /\ cdoc = idle_cdoc
    /\ pdoc = idle_pdoc
    /\ fdoc = idle_fdoc
    /\ cb = idle_cb
    /\ ss = idle_ss
    /\ js_doc \in Lookups
    /\ \E s \in StartLists : fd = find_dependencies_frame(s)
    /\ main = idle_main
    /\ sd = idle_sd
    /\ gdc = idle_gdc

AddStartVertex ==
    /\ fd.pc = "add_start"
    /\ fd' = find_dependencies_step(fd, js_doc)
    /\ UNCHANGED <<js_doc, main, sd, gdc, cdoc, pdoc, fdoc, ss, cb>>

Discover ==
    /\ fd.pc = "discover"
    /\ fd' = find_dependencies_step(fd, js_doc)
    /\ UNCHANGED <<js_doc, main, sd, gdc, cdoc, pdoc, fdoc, ss, cb>>

SortPop ==
    /\ fd.pc = "sort"
    /\ fd.start_sort # << >>
    /\ fd' = find_dependencies_step(fd, js_doc)
    /\ UNCHANGED <<js_doc, main, sd, gdc, cdoc, pdoc, fdoc, ss, cb>>

SortFinish ==
    /\ fd.pc = "sort"
    /\ fd.start_sort = << >>
    /\ fd' = find_dependencies_step(fd, js_doc)
    /\ UNCHANGED <<js_doc, main, sd, gdc, cdoc, pdoc, fdoc, ss, cb>>

NextDeps == AddStartVertex \/ Discover \/ SortPop \/ SortFinish

SpecDeps == InitDeps /\ [][NextDeps]_vars

\* The interpreter goes on with the call as long as it has a step.
FairDeps == InitDeps /\ [][NextDeps]_vars /\ WF_vars(NextDeps)

(***************************************************************************)
(* Specification SpecSplit: one run of split_delimited, step by step, on   *)
(* every text of at most MaxText characters.                               *)
(***************************************************************************)
SplitChars == {"(", ")", "[", "]", ",", "a"}

DelimiterConfigs == {<< >>, <<"(", ")">>, <<"(", ")", "[", "]">>}

SplitBys ==
    {LiteralSplit(","), LiteralSplit("("), [is_str |-> FALSE, accepts |-> {",", "a"}]}

InitSplit ==
    /\ cdoc = idle_cdoc
    /\ pdoc = idle_pdoc
    /\ fdoc = idle_fdoc
    /\ cb = idle_cb
    /\ ss = idle_ss
    /\ js_doc = << >>
    /\ fd = idle_fd
    /\ main = idle_main
    /\ gdc = idle_gdc
    /\ \E d \in DelimiterConfigs, sb \in SplitBys, text \in SeqsUpTo(SplitChars, MaxText) :
          sd = split_delimited_frame(d, sb, text)

SplitLoop ==
    /\ sd.pc = "loop"
    /\ sd.i < Len(sd.text)
    /\ sd' = split_delimited_step(sd)
    /\ UNCHANGED <<js_doc, fd, main, gdc, cdoc, pdoc, fdoc, ss, cb>>

SplitLastYield ==
    /\ sd.pc = "loop"
    /\ sd.i >= Len(sd.text)
    /\ sd' = split_delimited_step(sd)
    /\ UNCHANGED <<js_doc, fd, main, gdc, cdoc, pdoc, fdoc, ss, cb>>

NextSplit == SplitLoop \/ SplitLastYield

SpecSplit == InitSplit /\ [][NextSplit]_vars

(***************************************************************************)
(* Specification SpecComments: one call of get_doc_comments, comment by    *)
(* comment, on every file text of at most MaxTokens tokens.                *)
(***************************************************************************)
Tokens == {OpenMarker, CloseMarker, <<NL>>, <<"(">>, <<")">>, ClassTag}

RECURSIVE Flatten(_)
Flatten(ts) == IF ts = << >> THEN << >> ELSE Head(ts) \o Flatten(Tail(ts))

FileTexts == {Flatten(ts) : ts \in SeqsUpTo(Tokens, MaxTokens)}

InitComments ==
    /\ cdoc = idle_cdoc
    /\ pdoc = idle_pdoc
    /\ fdoc = idle_fdoc
    /\ cb = idle_cb
    /\ ss = idle_ss
    /\ js_doc = << >>
    /\ fd = idle_fd
    /\ main = idle_main
    /\ sd = idle_sd
    /\ \E text \in FileTexts : gdc = get_doc_comments_frame(text)

ScanComment ==
    /\ gdc.pc = "scan"
    /\ next_match(gdc.text, gdc.pos)[1] # -1
    /\ gdc' = get_doc_comments_step(gdc)
    /\ UNCHANGED <<js_doc, fd, main, sd, cdoc, pdoc, fdoc, ss, cb>>

ScanEnd ==
    /\ gdc.pc = "scan"
    /\ next_match(gdc.text, gdc.pos)[1] = -1
    /\ gdc' = get_doc_comments_step(gdc)
    /\ UNCHANGED <<js_doc, fd, main, sd, cdoc, pdoc, fdoc, ss, cb>>

NextComments == ScanComment \/ ScanEnd

SpecComments == InitComments /\ [][NextComments]_vars

(***************************************************************************)
(* Specification SpecParse: parse_comment on a comment text and the line   *)
(* after it, then one of the properties of the FunctionDoc made of the     *)
(* result, for the comments FileDoc makes a FunctionDoc of.  A comment     *)
(* text is a line of description and at most MaxTags tag sections; the     *)
(* tags read as one value (return, returns, type, function) come once.     *)
(***************************************************************************)
TagSections ==
    {<<NL, "@">> \o Param \o <<" ", "{", "T", "}", " ", "a", " ", "d">>,
     <<NL, "@">> \o Param \o <<" ", "b">>,
     <<NL, "@">> \o Param \o <<" ", "{", "T", "}">>,
     <<NL, " ", "@">> \o Argument \o <<" ", "b", " ", "e">>,
     <<NL, "@">> \o Return \o <<" ", "{", "T", "}", " ", "d", " ", "e">>,
     <<NL, "@">> \o Returns \o <<" ", "d", " ", "e">>,
     <<NL, "@">> \o Type \o <<" ", "T">>,
     <<NL, "@">> \o Function \o <<" ", "f">>}

\* The tag name of a section of TagSections.
SectionTag(section) == split_tag(Tail(split_sections(section, 0, 0))[1]).tag

OnceOnly(sections, tags) ==
    Cardinality({k \in 1..Len(sections) : SectionTag(sections[k]) \in tags}) <= 1

DocComments ==
    {<<"d">> \o Flatten(sections) :
        sections \in {s \in SeqsUpTo(TagSections, MaxTags) :
                         /\ OnceOnly(s, {Return, Returns})
                         /\ OnceOnly(s, {Type})
                         /\ OnceOnly(s, {Function})}}

NextLines ==
    {<< >>,
     Function \o <<" ", "g", "(", "a", ",", " ", "b", ")", " ", "{">>,
     <<"f", ":", " ">> \o Function \o <<"(", "b", ")">>,
     <<"x", ".", "h", " ", "=", " ">> \o Function \o <<"(", ")">>}

InitParse ==
    /\ js_doc = << >>
    /\ fd = idle_fd
    /\ main = idle_main
    /\ sd = idle_sd
    /\ gdc = idle_gdc
    /\ pdoc = idle_pdoc
    /\ fdoc = idle_fdoc
    /\ cb = idle_cb
    /\ ss = idle_ss
    /\ \E doc_comment \in DocComments, next_line \in NextLines :
          cdoc = [idle_cdoc EXCEPT !.pc = "parse",
                                   !.doc_comment = doc_comment,
                                   !.next_line = next_line]

ParseComment ==
    /\ cdoc.pc = "parse"
    /\ cdoc' = [cdoc EXCEPT !.pc = "parsed",
                            !.parsed = parse_comment(cdoc.doc_comment, cdoc.next_line)]
    /\ UNCHANGED <<js_doc, fd, main, sd, gdc, pdoc, fdoc, ss, cb>>

\* FileDoc makes a FunctionDoc of the parsed comment.
IsFunctionDoc == cdoc.pc = "parsed" /\ classify(cdoc.parsed, FALSE).kind = "FunctionDoc"

GetName ==
    /\ IsFunctionDoc
    /\ cdoc' = [cdoc EXCEPT !.pc = "name", !.name = FunctionDoc_name(cdoc.parsed)]
    /\ UNCHANGED <<js_doc, fd, main, sd, gdc, pdoc, fdoc, ss, cb>>

GetParams ==
    /\ IsFunctionDoc
    /\ cdoc' = [cdoc EXCEPT !.pc = "params", !.params = FunctionDoc_params(cdoc.parsed)]
    /\ UNCHANGED <<js_doc, fd, main, sd, gdc, pdoc, fdoc, ss, cb>>

GetReturnVal ==
    /\ IsFunctionDoc
    /\ cdoc' = [cdoc EXCEPT !.pc = "return_val",
                            !.return_val = FunctionDoc_return_val(cdoc.parsed)]
    /\ UNCHANGED <<js_doc, fd, main, sd, gdc, pdoc, fdoc, ss, cb>>

NextParse == ParseComment \/ GetName \/ GetParams \/ GetReturnVal

SpecParse == InitParse /\ [][NextParse]_vars

(***************************************************************************)
(* Specification SpecParam: ParamDoc(text), and make_param(text) of        *)
(* FunctionDoc.exceptions, on every tag body of at most MaxParamText       *)
(* characters.                                                             *)
(***************************************************************************)
ParamChars == {"{", "}", " ", "T", "n"}

InitParam ==
    /\ js_doc = << >>
    /\ fd = idle_fd
    /\ main = idle_main
    /\ sd = idle_sd
    /\ gdc = idle_gdc
    /\ cdoc = idle_cdoc
    /\ fdoc = idle_fdoc
    /\ cb = idle_cb
    /\ ss = idle_ss
    /\ \E text \in SeqsUpTo(ParamChars, MaxParamText) :
          pdoc = [idle_pdoc EXCEPT !.pc = "text", !.text = text]

NewParamDoc ==
    /\ pdoc.pc = "text"
    /\ pdoc' = [pdoc EXCEPT !.pc = "ParamDoc", !.param = ParamDoc(pdoc.text)]
    /\ UNCHANGED <<js_doc, fd, main, sd, gdc, cdoc, fdoc, ss, cb>>

MakeParam ==
    /\ pdoc.pc = "text"
    /\ pdoc' = [pdoc EXCEPT !.pc = "make_param", !.param = make_param(pdoc.text)]
    /\ UNCHANGED <<js_doc, fd, main, sd, gdc, cdoc, fdoc, ss, cb>>

NextParam == NewParamDoc \/ MakeParam

SpecParam == InitParam /\ [][NextParam]_vars

(***************************************************************************)
(* Specification SpecFile: FileDoc(file_name, file_text), comment by       *)
(* comment and then method by method, on every file text of at most        *)
(* MaxComments blocks, a block being a doc comment and the line after it.  *)
(***************************************************************************)
Described(tags) == OpenMarker \o <<"d">> \o tags \o CloseMarker \o <<NL>>

CommentBlocks ==
    {Described(<< >>),
     Described(<<NL, "@">> \o FileOverview),
     Described(<<NL, "@">> \o Function \o <<" ", "f">>),
     Described(<< >>) \o Function \o <<" ", "g", "(", "a", ")", " ", "{", NL>>,
     Described(<<NL, "@">> \o Class \o <<" ", "C">>),
     Described(<<NL, "@">> \o Function \o <<" ", "f", NL, "@">> \o Class \o <<" ", "C">>),
     Described(<<NL, "@">> \o FileOverview \o <<NL, "@">> \o Function \o <<" ", "f">>),
     Described(<<NL, "@">> \o Member \o <<" ", "C">>) \o Function \o <<" ", "m", "(", ")", " ", "{", NL>>,
     Described(<<NL, "@">> \o Member \o <<" ", "f">>) \o Function \o <<" ", "n", "(", ")", " ", "{", NL>>}

SourceTexts == {Flatten(blocks) : blocks \in SeqsUpTo(CommentBlocks, MaxComments)}

InitFile ==
    /\ js_doc = << >>
    /\ fd = idle_fd
    /\ main = idle_main
    /\ sd = idle_sd
    /\ gdc = idle_gdc
    /\ cdoc = idle_cdoc
    /\ pdoc = idle_pdoc
    /\ cb = idle_cb
    /\ ss = idle_ss
    /\ \E file_text \in SourceTexts : fdoc = FileDoc_frame(file_text)

FileDocComment ==
    /\ fdoc.pc = "comments"
    /\ fdoc' = FileDoc_comment(fdoc)
    /\ UNCHANGED <<js_doc, fd, main, sd, gdc, cdoc, pdoc, ss, cb>>

FileDocLink ==
    /\ fdoc.pc = "link"
    /\ fdoc.mi <= Len(fdoc.order)
    /\ fdoc' = FileDoc_link(fdoc)
    /\ UNCHANGED <<js_doc, fd, main, sd, gdc, cdoc, pdoc, ss, cb>>

FileDocReturn ==
    /\ fdoc.pc = "link"
    /\ fdoc.mi > Len(fdoc.order)
    /\ fdoc' = [fdoc EXCEPT !.pc = "done"]
    /\ UNCHANGED <<js_doc, fd, main, sd, gdc, cdoc, pdoc, ss, cb>>

NextFile == FileDocComment \/ FileDocLink \/ FileDocReturn

SpecFile == InitFile /\ [][NextFile]_vars

(***************************************************************************)
(* Specification SpecCodeBase: a CodeBaseDoc is built over files that hold *)
(* classes, methods and functions (no @dependency tags, so                 *)
(* _build_dependencies gives each file itself), its superclass lists are   *)
(* built, and translate_ref_to_url is called on it once.                   *)
(***************************************************************************)
ClassComment(cls, tag, super) ==
    Described(<<NL, "@">> \o Class \o <<" ", cls>>
              \o (IF super = "" THEN << >> ELSE <<NL, "@">> \o tag \o <<" ", super>>))

MethodComment(cls, method) ==
    Described(<<NL, "@">> \o Member \o <<" ", cls>>)
        \o Function \o <<" ", method, "(", ")", " ", "{", NL>>

FunctionComment(fn) == Described(<<NL, "@">> \o Function \o <<" ", fn>>)

CodeTexts ==
    {ClassComment("A", Extends, "") \o MethodComment("A", "m"),
     ClassComment("B", Extends, "A"),
     ClassComment("A", Extends, "A"),
     ClassComment("A", Extends, "B") \o FunctionComment("m"),
     ClassComment("B", Base, "Z") \o MethodComment("B", "m"),
     FunctionComment("f") \o MethodComment("Z", "n"),
     ClassComment("C", Extends, "B") \o ClassComment("B", Extends, "A")}

FileNames == <<<<"a">> \o JsExt, <<"b">> \o JsExt, <<"c">> \o JsExt, <<"d">> \o JsExt>>

\* The codebases: up to MaxFiles files, in the dictionary's order.
CodeBases ==
    {[i \in 1..Len(texts) |-> FileDoc(FileNames[i], texts[i])] :
        texts \in SeqsUpTo(CodeTexts, MaxFiles)}

Refs ==
    {<<Hash, "m">>, <<Hash, "f">>, <<Hash, "x">>, <<"A", Hash, "m">>,
     <<"B", Hash, "m">>, <<"A", Hash, "x">>, <<"A">>, <<"B">>, <<"Z">>}

\* The comments a reference can stand in: none, or an entity of a file.
InComments(files) ==
    {NoEntity} \cup UNION {Range(FileDoc_iter(files[i])) : i \in 1..Len(files)}

InitCodeBase ==
    /\ js_doc = << >>
    /\ fd = idle_fd
    /\ main = idle_main
    /\ sd = idle_sd
    /\ gdc = idle_gdc
    /\ cdoc = idle_cdoc
    /\ pdoc = idle_pdoc
    /\ fdoc = idle_fdoc
    /\ ss = idle_ss
    /\ \E files \in CodeBases : cb = CodeBaseDoc_frame(files)

SuperclassListsNext ==
    /\ cb.pc = "build"
    /\ \E cls \in cb.pending : cb' = superclass_lists_next(cb, cls)
    /\ UNCHANGED <<js_doc, fd, main, sd, gdc, cdoc, pdoc, fdoc, ss>>

SuperclassListsWalk ==
    /\ cb.pc = "walk"
    /\ cb' = superclass_lists_walk(cb)
    /\ UNCHANGED <<js_doc, fd, main, sd, gdc, cdoc, pdoc, fdoc, ss>>

\* The list grows as long as the loop runs; of a list longer than MaxChain
\* the last MaxChain entries are kept.
SuperclassListsAppend ==
    /\ cb.pc = "append"
    /\ cb' = LET c == superclass_lists_append(cb)
                 l == c.all_superclasses[cb.cls] IN
             IF Len(l) <= MaxChain THEN c
             ELSE [c EXCEPT !.all_superclasses[cb.cls] = Tail(l)]
    /\ UNCHANGED <<js_doc, fd, main, sd, gdc, cdoc, pdoc, fdoc, ss>>

SuperclassListsReturn ==
    /\ cb.pc = "build"
    /\ cb.pending = {}
    /\ cb' = [cb EXCEPT !.pc = "ready"]
    /\ UNCHANGED <<js_doc, fd, main, sd, gdc, cdoc, pdoc, fdoc, ss>>

TranslateRefToUrl ==
    /\ cb.pc = "ready"
    /\ \E ref \in Refs, in_comment \in InComments(cb.files) :
          cb' = [cb EXCEPT !.pc = "translated",
                           !.ref = ref,
                           !.in_comment = in_comment,
                           !.result = translate_ref_to_url(cb.files, ref, in_comment)]
    /\ UNCHANGED <<js_doc, fd, main, sd, gdc, cdoc, pdoc, fdoc, ss>>

NextCodeBase ==
    \/ SuperclassListsNext \/ SuperclassListsWalk \/ SuperclassListsAppend
    \/ SuperclassListsReturn
    \/ TranslateRefToUrl

SpecCodeBase == InitCodeBase /\ [][NextCodeBase]_vars

\* The interpreter goes on with the constructor as long as it has a step.
FairCodeBase ==
    /\ InitCodeBase
    /\ [][NextCodeBase]_vars
    /\ WF_vars(SuperclassListsNext \/ SuperclassListsWalk
                   \/ SuperclassListsAppend \/ SuperclassListsReturn)

(***************************************************************************)
(* Specification SpecStars: strip_stars is applied to a doc comment, and   *)
(* then to its own result.                                                 *)
(***************************************************************************)
CommentChars == {"d", " ", NL, "*"}

StarComments ==
    {OpenMarker \o body \o CloseMarker : body \in SeqsUpTo(CommentChars, MaxCommentText)}

InitStars ==
    /\ js_doc = << >>
    /\ fd = idle_fd
    /\ main = idle_main
    /\ sd = idle_sd
    /\ gdc = idle_gdc
    /\ cdoc = idle_cdoc
    /\ pdoc = idle_pdoc
    /\ fdoc = idle_fdoc
    /\ cb = idle_cb
    /\ \E c \in StarComments : ss = [idle_ss EXCEPT !.pc = "comment", !.doc_comment = c]

StripStars ==
    /\ ss.pc = "comment"
    /\ ss' = [ss EXCEPT !.pc = "stripped", !.stripped = strip_stars(ss.doc_comment)]
    /\ UNCHANGED <<js_doc, fd, main, sd, gdc, cdoc, pdoc, fdoc, cb>>

StripStarsAgain ==
    /\ ss.pc = "stripped"
    /\ ss' = [ss EXCEPT !.pc = "twice", !.again = strip_stars(ss.stripped)]
    /\ UNCHANGED <<js_doc, fd, main, sd, gdc, cdoc, pdoc, fdoc, cb>>

NextStars == StripStars \/ StripStarsAgain

SpecStars == InitStars /\ [][NextStars]_vars

(***************************************************************************)
(* What the claims about find_dependencies speak of: the files reachable   *)
(* from the start nodes through immediate-dependency links, the missing    *)
(* keys and the cycles among them.                                         *)
(***************************************************************************)
ImmediateFiles(S, lookup) ==
    UNION {Range(lookup[f]) : f \in S} \cap DOMAIN lookup

RECURSIVE Closure(_, _)
Closure(S, lookup) ==
    LET N == S \cup ImmediateFiles(S, lookup) IN
    IF N = S THEN S ELSE Closure(N, lookup)

Reachable == Closure(Range(fd.start_nodes), js_doc)

OnCycle(f) == f \in Closure(ImmediateFiles({f}, js_doc), js_doc)

HasCycle == \E f \in Reachable : OnCycle(f)

HasMissing == \E f \in Reachable : \E d \in Range(js_doc[f]) : d \notin DOMAIN js_doc

Before(s, x, p) == \E q \in 1..(p - 1) : s[q] = x

\* C1: on a lookup whose reachable files hold no cycle and no missing key,
\* find_dependencies returns a list in which every file comes after each of
\* its immediate dependencies.
C1_DependenciesFirst ==
    (Finished(fd) /\ ~HasCycle /\ ~HasMissing) =>
        /\ fd.pc = "returned"
        /\ \A p \in 1..Len(fd.retval) :
              \A d \in Range(js_doc[fd.retval[p]]) : Before(fd.retval, d, p)

C1_Witness ==
    /\ fd.pc = "returned"
    /\ js_doc["c"] = <<"a", "b">>
    /\ js_doc["b"] = <<"a">>
    /\ fd.start_nodes = <<"c">>
    /\ fd.retval = <<"a", "b", "c">>

\* C2: on such a lookup the files of the result are exactly the files
\* reachable from the start nodes, the start nodes included.
C2_ExactlyReachable ==
    (Finished(fd) /\ ~HasCycle /\ ~HasMissing) =>
        /\ fd.pc = "returned"
        /\ Range(fd.retval) = Reachable

C2_Witness ==
    /\ fd.pc = "returned"
    /\ fd.start_nodes = <<"b">>
    /\ js_doc["b"] = <<"a">>
    /\ js_doc["c"] = <<"a", "b">>
    /\ Range(fd.retval) = {"a", "b"}

\* C3: find_dependencies raises CyclicDependency exactly when the reachable
\* files hold a cycle and no dependency is missing, and the error's values
\* hold every file that lies on a cycle.
C3_CyclicIffCycle ==
    Finished(fd) =>
        /\ (fd.raised.type = "CyclicDependency") <=> (HasCycle /\ ~HasMissing)
        /\ fd.raised.type = "CyclicDependency" =>
              \A f \in Reachable : OnCycle(f) => f \in fd.raised.values

C3_Witness ==
    /\ fd.pc = "raised"
    /\ fd.start_nodes = <<"a">>
    /\ js_doc["a"] = <<"b">>
    /\ js_doc["b"] = <<"a">>
    /\ fd.raised.type = "CyclicDependency"
    /\ {"a", "b"} \subseteq fd.raised.values

\* C4: a reachable file that declares a dependency absent from the lookup
\* makes find_dependencies raise MissingDependency, naming the declaring file
\* and the missing key, before any sorting step, cycle or no cycle.
C4_MissingAtDiscovery ==
    (Finished(fd) /\ HasMissing) =>
        /\ fd.raised.type = "MissingDependency"
        /\ fd.raised.file \in Reachable
        /\ fd.raised.dependency \in Range(js_doc[fd.raised.file])
        /\ fd.raised.dependency \notin DOMAIN js_doc
        /\ fd.retval = << >>

C4_Witness ==
    /\ fd.pc = "raised"
    /\ HasCycle
    /\ fd.start_nodes = <<"a">>
    /\ js_doc["a"] = <<"b">>
    /\ js_doc["b"] = <<"a", Absent>>
    /\ fd.raised = [type |-> "MissingDependency", file |-> "b", dependency |-> Absent]

(***************************************************************************)
(* What the claims about CodeBaseDoc and main speak of.                    *)
(***************************************************************************)
\* CodeBaseDoc(...) returned: main went on to use the codebase.
CodeBaseBuilt ==
    /\ main.pc \in {"select", "dispatch", "exit"}
    /\ DOMAIN js_doc # {}
    /\ DOMAIN main.all_dependencies = DOMAIN js_doc

\* Some scanned file lies on a dependency cycle or names a missing file.
ScannedCycleOrMissing ==
    \/ \E f \in DOMAIN js_doc :
          f \in Closure(ImmediateFiles({f}, js_doc), js_doc)
    \/ \E f \in DOMAIN js_doc : \E d \in Range(js_doc[f]) : d \notin DOMAIN js_doc

\* C5: once a CodeBaseDoc is built, all_dependencies of every file ends
\* with the file's own key.
C5_OwnKeyLast ==
    CodeBaseBuilt =>
        \A f \in DOMAIN js_doc :
            /\ main.all_dependencies[f] # << >>
            /\ Last(main.all_dependencies[f]) = f

C5_Witness ==
    /\ CodeBaseBuilt
    /\ main.all_dependencies["c"] = <<"a", "b", "c">>
    /\ main.all_dependencies["b"] = <<"a", "b">>

\* C6: when the scanned files hold a dependency cycle or a missing
\* dependency, main ends by reporting it, never by an uncaught exception.
C6_ErrorsReported ==
    (main.pc = "exit" /\ ScannedCycleOrMissing) => main.uncaught = NoException

(***************************************************************************)
(* What the claims about split_delimited speak of: the depth of a pair at  *)
(* a position, counted from the text alone, and the positions that split.  *)
(***************************************************************************)
Count(text, c, n) == Cardinality({k \in 1..n : text[k] = c})

\* Opens minus closes of pair k (1, 2, ...) in text[0..i-1].
Depth(delimiters, text, k, i) ==
    Count(text, delimiters[2 * k - 1], i) - Count(text, delimiters[2 * k], i)

Pairs(delimiters) == 1..(Len(delimiters) \div 2)

SplitPoints(f) ==
    {i \in 0..(Len(f.text) - 1) :
        /\ At(f.text, i) \in f.split_by.accepts
        /\ \A k \in Pairs(f.delimiters) : Depth(f.delimiters, f.text, k, i) = 0}

RECURSIVE Ascending(_)
Ascending(S) ==
    IF S = {} THEN << >>
    ELSE LET least == CHOOSE x \in S : \A y \in S : x <= y IN
         <<least>> \o Ascending(S \ {least})

\* The segments between consecutive split points.
SegmentsAt(text, points) ==
    LET cuts == <<-1>> \o Ascending(points) \o <<Len(text)>> IN
    [j \in 1..(Len(cuts) - 1) |-> Slice(text, cuts[j] + 1, cuts[j + 1])]

Balanced(delimiters, text) ==
    \A k \in Pairs(delimiters) :
        /\ Depth(delimiters, text, k, Len(text)) = 0
        /\ \A i \in 0..Len(text) : Depth(delimiters, text, k, i) >= 0

RECURSIVE Join(_, _)
Join(segments, c) ==
    IF Len(segments) = 0 THEN << >>
    ELSE IF Len(segments) = 1 THEN segments[1]
    ELSE segments[1] \o <<c>> \o Join(Tail(segments), c)

RECURSIVE TotalLen(_)
TotalLen(segments) ==
    IF segments = << >> THEN 0 ELSE Len(Head(segments)) + TotalLen(Tail(segments))

\* C7: split_delimited splits at position i exactly when text[i] satisfies
\* the split predicate and every pair's depth over text[0..i-1] is zero; the
\* output has one more element than there are such positions, empty strings
\* included, and is one empty string for the empty text.
C7_SplitsAtZeroDepth ==
    sd.pc = "done" =>
        /\ sd.out = SegmentsAt(sd.text, SplitPoints(sd))
        /\ Len(sd.out) = Cardinality(SplitPoints(sd)) + 1
        /\ sd.text = << >> => sd.out = << << >> >>

C7_Witness ==
    /\ sd.pc = "done"
    /\ sd.delimiters = <<"(", ")", "[", "]">>
    /\ sd.text = <<",", "[", ",", "]">>
    /\ sd.split_by = LiteralSplit(",")
    /\ sd.out = << << >>, <<"[", ",", "]">> >>

\* C8: on a text with balanced delimiters, joining the segments with the
\* literal split character gives the text back.
C8_JoinRoundTrip ==
    (sd.pc = "done" /\ sd.split_by.is_str /\ Balanced(sd.delimiters, sd.text)) =>
        \A c \in sd.split_by.accepts : Join(sd.out, c) = sd.text

C8_Witness ==
    /\ sd.pc = "done"
    /\ sd.split_by = LiteralSplit(",")
    /\ sd.delimiters = <<"(", ")">>
    /\ sd.text = <<"a", ",", "(", ")">>
    /\ sd.out = << <<"a">>, <<"(", ")">> >>

\* C9: on a text with unbalanced delimiters split_delimited raises nothing
\* and yields a complete sequence of segments.
C9_UnbalancedTolerated ==
    (sd.pc # "idle" /\ ~Balanced(sd.delimiters, sd.text)) =>
        /\ sd.pc # "raised"
        /\ sd.pc = "done" =>
              /\ Len(sd.out) >= 1
              /\ TotalLen(sd.out) + Len(sd.out) - 1 = Len(sd.text)

C9_Witness ==
    /\ sd.pc = "done"
    /\ sd.delimiters = <<"(", ")">>
    /\ sd.text = <<")", ",", "(", "(">>
    /\ sd.delims = <<1>>
    /\ sd.out = << <<")", ",", "(", "(">> >>

(***************************************************************************)
(* What the claims about get_doc_comments speak of.                        *)
(***************************************************************************)
\* The k-th comment closes at the end of the file text: nothing follows its
\* closing marker, or only the newline that ends its line.
ClosesAtEndOfFile(f, k) ==
    \/ f.matches[k][2] = Len(f.text)
    \/ f.matches[k][2] = Len(f.text) - 1 /\ Last(f.text) = NL

\* C10: a comment with no source line after it gets the empty string as its
\* next line, whether or not a newline follows its closing marker.
C10_EmptyNextLineAtEndOfFile ==
    gdc.pc = "done" =>
        \A k \in 1..Len(gdc.pairs) :
            ClosesAtEndOfFile(gdc, k) => gdc.pairs[k].next_line = << >>

\* The text after the newline that ends the closing line of the k-th comment
\* (there is one when a newline follows the closing marker).
EndsItsLine(f, k) == \E i \in f.matches[k][2]..(Len(f.text) - 1) : At(f.text, i) = NL

FollowingText(f, k) ==
    LET ends == {i \in f.matches[k][2]..(Len(f.text) - 1) : At(f.text, i) = NL}
        nl   == CHOOSE i \in ends : \A j \in ends : i <= j
    IN SliceFrom(f.text, nl + 1)

\* rest up to its first newline (at parenthesis depth zero when nested is
\* TRUE), the whole of rest when it has none.
UpToNewline(rest, nested) ==
    LET stops == {i \in 0..(Len(rest) - 1) :
                     /\ At(rest, i) = NL
                     /\ nested => Depth(Parens, rest, 1, i) = 0} IN
    IF stops = {} THEN rest
    ELSE Slice(rest, 0, CHOOSE i \in stops : \A j \in stops : i <= j)

\* C11: the next line of a comment without @class is the text after the
\* newline ending its closing line, up to the first newline at parenthesis
\* depth zero; with @class it is that text up to the next newline, whatever
\* the parentheses.
C11_NextLineExtent ==
    gdc.pc = "done" =>
        \A k \in 1..Len(gdc.pairs) :
            EndsItsLine(gdc, k) =>
                gdc.pairs[k].next_line =
                    UpToNewline(FollowingText(gdc, k),
                                ~Contains(gdc.pairs[k].comment, ClassTag))

(***************************************************************************)
(* What the claims about parse_comment speak of: the occurrences of a tag  *)
(* in the comment text and their bodies, read off the text itself.         *)
(***************************************************************************)
\* Where "@tag " stands in the text.
TagAt(text, tag) == {i \in 0..(Len(text) - 1) : StartsAt(text, <<"@">> \o tag \o <<" ">>, i)}

\* The body of the tag at position i: what follows "@tag " on its line.
BodyAt(text, tag, i) ==
    LET from == i + Len(tag) + 2
        nl   == Find(text, <<NL>>, from) IN
    strip(Slice(text, from, IF nl = -1 THEN Len(text) ELSE nl))

\* The bodies of a tag, in declaration order.
Bodies(text, tag) ==
    LET at == Ascending(TagAt(text, tag)) IN
    [k \in 1..Len(at) |-> BodyAt(text, tag, at[k])]

ListTags == {Param, Argument}

AllTags == {Param, Argument, Return, Returns, Type, Function}

Parsed == cdoc.pc \in {"parsed", "name", "params", "return_val"}

BodyTokens(text) ==
    SegmentsAt(text, {i \in 0..(Len(text) - 1) :
                         At(text, i) = " " /\ Depth(Braces, text, 1, i) = 0})

IsBraced(token) == token # << >> /\ Head(token) = "{" /\ Last(token) = "}"

\* C14: the name of a function is the value of its explicit @function tag
\* whenever there is one, and the guessed name only when there is none.
C14_ExplicitNameFirst ==
    cdoc.pc = "name" =>
        cdoc.name = IF Len(Bodies(cdoc.doc_comment, Function)) = 1
                    THEN Str(Bodies(cdoc.doc_comment, Function)[1])
                    ELSE cdoc.parsed[GuessedFunction]

\* The parameter a tag body stands for: a braced first token is the type,
\* the token after it the name (the empty string when there is none), the
\* rest the description.
Declared(text) ==
    LET tokens == BodyTokens(text) IN
    IF IsBraced(tokens[1])
    THEN [type |-> SubSeq(tokens[1], 2, Len(tokens[1]) - 1),
          name |-> IF Len(tokens) >= 2 THEN tokens[2] ELSE << >>,
          doc  |-> Join(SubSeq(tokens, 3, Len(tokens)), " ")]
    ELSE [type |-> << >>, name |-> tokens[1], doc |-> Join(Tail(tokens), " ")]

Fields(param) == [type |-> param.type, name |-> param.name, doc |-> param.doc]

\* The explicit parameters of the comment: @param, then @argument.
Explicit ==
    LET bodies == Bodies(cdoc.doc_comment, Param) \o Bodies(cdoc.doc_comment, Argument) IN
    [k \in 1..Len(bodies) |-> Declared(bodies[k])]

\* C15: with guessed_params, params has one entry per guessed name, in the
\* guessed order: the explicit @param/@argument of that name if there is
\* one, else a placeholder of that name with empty type and description;
\* without guessed_params, params is the explicit @param then @argument
\* tags in declaration order.
C15_ParamsFollowGuess ==
    cdoc.pc = "params" =>
        /\ cdoc.params.raised = "none"
        /\ LET guessed == cdoc.parsed[GuessedParams]
               params  == cdoc.params.list IN
           IF guessed = None
           THEN /\ Len(params) = Len(Explicit)
                /\ \A k \in 1..Len(params) : Fields(params[k]) = Explicit[k]
           ELSE /\ Len(params) = Len(guessed.list)
                /\ \A g \in 1..Len(params) :
                      /\ params[g].name = guessed.list[g].str
                      /\ IF \E k \in 1..Len(Explicit) : Explicit[k].name = params[g].name
                         THEN \E k \in 1..Len(Explicit) : Explicit[k] = Fields(params[g])
                         ELSE params[g].type = << >> /\ params[g].doc = << >>

\* The @return (or @returns) body and whether the comment has one.
HasReturn ==
    Bodies(cdoc.doc_comment, Return) \o Bodies(cdoc.doc_comment, Returns) # << >>

ReturnBody ==
    IF HasReturn
    THEN (Bodies(cdoc.doc_comment, Return) \o Bodies(cdoc.doc_comment, Returns))[1]
    ELSE << >>

\* C16: return_val has an empty name; a return body with a {type} prefix
\* gives that type and the rest as description; else, with an @type tag,
\* the type is its value and the description the whole return body; else
\* the type is empty and the description the whole return body.
C16_ReturnValNameEmpty ==
    cdoc.pc = "return_val" =>
        /\ cdoc.return_val.raised = "none"
        /\ cdoc.return_val.name = << >>
        /\ HasReturn =>
              IF IsBraced(BodyTokens(ReturnBody)[1])
              THEN /\ cdoc.return_val.type = Declared(ReturnBody).type
                   /\ cdoc.return_val.doc = Join(Tail(BodyTokens(ReturnBody)), " ")
              ELSE /\ cdoc.return_val.type =
                          IF Bodies(cdoc.doc_comment, Type) # << >>
                          THEN Bodies(cdoc.doc_comment, Type)[1] ELSE << >>
                   /\ cdoc.return_val.doc = ReturnBody

C18_NeverRaises ==
    pdoc.pc \in {"ParamDoc", "make_param"} =>
        /\ pdoc.param.raised = "none"
        /\ (pdoc.text = << >> \/ (IsBraced(pdoc.text) /\ Len(BodyTokens(pdoc.text)) = 1))
              => pdoc.param.name = << >>

(***************************************************************************)
(* What the claims about FileDoc speak of.                                 *)
(***************************************************************************)
\* The parsed comment of the k-th doc comment of the file.
Raw(k) == parse_comment(strip_stars(fdoc.pairs[k].comment), fdoc.pairs[k].next_line)

HasValue(raw, tag) == tag \in DOMAIN raw /\ raw[tag] \notin {None, Str(<< >>)}

\* The class of the entity a parsed comment gives, "none" when skipped.
KindOf(raw, first) ==
    IF FileOverview \in DOMAIN raw THEN "ModuleDoc"
    ELSE IF HasValue(raw, Function) \/ HasValue(raw, GuessedFunction) THEN "FunctionDoc"
    ELSE IF HasValue(raw, Class) THEN "ClassDoc"
    ELSE IF first THEN "ModuleDoc"
    ELSE "none"

RECURSIVE EntitiesFrom(_)
EntitiesFrom(k) ==
    IF k > Len(fdoc.pairs) THEN << >>
    ELSE LET kind == KindOf(Raw(k), k = 1) IN
         IF kind = "none" THEN EntitiesFrom(k + 1)
         ELSE <<[kind |-> kind, parsed |-> Raw(k)]>> \o EntitiesFrom(k + 1)

\* C20: iterating a FileDoc gives its entities in source order: the i-th
\* entity is the one built from the i-th comment that was not skipped,
\* also when two comments come to the same name.
C20_IterationInSourceOrder ==
    fdoc.pc = "done" =>
        LET yielded == FileDoc_iter(fdoc) IN
        /\ Len(yielded) = Len(EntitiesFrom(1))
        /\ \A i \in 1..Len(yielded) :
              [kind |-> yielded[i].kind, parsed |-> yielded[i].parsed]
                  = EntitiesFrom(1)[i]

IsMethod(obj) == obj.kind = "FunctionDoc" /\ truthy(member(obj))

\* The number of entries of a methods list that are the given method.
Occurrences(methods, method) ==
    Cardinality({i \in 1..Len(methods) : methods[i] = method})

ClassesOf(f) == {c \in Range(FileDoc_iter(f)) : c.kind = "ClassDoc"}

MethodsOf(f) == {m \in Range(FileDoc_iter(f)) : IsMethod(m)}

\* C21: after FileDoc construction, every method whose member is the name
\* of a class of the same file is in the methods list of that class
\* exactly once, and in the methods list of no other class.
C21_MethodInExactlyOneClass ==
    fdoc.pc = "done" =>
        \A m \in MethodsOf(fdoc) : \A c \in ClassesOf(fdoc) :
            Occurrences(c.methods, m) = IF name(c) = member(m) THEN 1 ELSE 0

\* C22: a method whose member names no entity of the file, or names an
\* entity that is not a class, is in no class's methods list, and a warning
\* was emitted for it, when the constructor returns.
C22_DroppedWithWarning ==
    fdoc.pc = "done" =>
        \A m \in MethodsOf(fdoc) :
            (\/ member(m).str \notin DOMAIN fdoc.comments
             \/ fdoc.comments[member(m).str].kind # "ClassDoc")
            => /\ \A c \in ClassesOf(fdoc) : Occurrences(c.methods, m) = 0
               /\ <<member(m).str, name(m).str>> \in Range(fdoc.warnings)

\* C27: to_dict(files) restricts the result to the requested files: when
\* print_json passes the selected files, an empty selection included, the
\* keys of the dictionary it prints are exactly the selected files.
C27_KeysAreRequestedFiles ==
    [][(main.pc = "dispatch" /\ run_and_exit_if(main.opts, {"--json", "-j"}))
          => DOMAIN main'.json = main.selected_files]_vars

ClassRefs(files) == Range(class_items(files, 1))

\* The classes that the names lead to, from the superclass name sup on.
RECURSIVE Ancestors(_, _)
Ancestors(files, sup) ==
    IF ~truthy(sup) \/ sup.str \notin DOMAIN all_classes(files) THEN << >>
    ELSE <<all_classes(files)[sup.str]>>
         \o Ancestors(files, superclass(deref(files, all_classes(files)[sup.str])))

\* The name the walk from sup stops at for want of a class, None if none.
RECURSIVE Unresolved(_, _)
Unresolved(files, sup) ==
    IF ~truthy(sup) THEN None
    ELSE IF sup.str \notin DOMAIN all_classes(files) THEN sup
    ELSE Unresolved(files, superclass(deref(files, all_classes(files)[sup.str])))

\* C23: after CodeBaseDoc construction every class entity of every file
\* has an all_superclasses list: its ancestors from nearest to furthest,
\* found by following the superclass names through the class-name map up
\* to the first class without superclass or the first name that is no
\* class, which is reported.
C23_AllSuperclassesResolved ==
    cb.pc = "ready" =>
        \A ref \in ClassRefs(cb.files) :
            /\ ref \in DOMAIN cb.all_superclasses
            /\ cb.all_superclasses[ref]
                   = Ancestors(cb.files, superclass(deref(cb.files, ref)))
            /\ truthy(Unresolved(cb.files, superclass(deref(cb.files, ref))))
                   => Unresolved(cb.files, superclass(deref(cb.files, ref))).str
                          \in Range(cb.missing)

\* C24: _build_superclass_lists eventually finishes for every set of
\* classes, also when a class extends itself or two classes extend each
\* other.
C24_SuperclassListsFinish == <>(cb.pc \notin {"build", "walk", "append"})

\* The class whose page a comment lies on: the class itself, or the class
\* of the codebase that a method's member names.
OwnerOf(files, in_comment) ==
    IF is_class(in_comment) THEN in_comment
    ELSE IF is_method(in_comment) /\ member(in_comment).str \in DOMAIN all_classes(files)
    THEN deref(files, all_classes(files)[member(in_comment).str])
    ELSE NoEntity

HasMethodNamed(cls, method_name) ==
    \E k \in 1..Len(cls.methods) : name(cls.methods[k]) = Str(method_name)

MatchesIn(file_doc, ref) ==
    \E c \in Range(FileDoc_iter(file_doc)) :
        IF startswith(ref, <<Hash>>)
        THEN is_function(c) /\ name(c) = Str(SliceFrom(ref, 1))
        ELSE IF Contains(ref, <<Hash>>)
        THEN /\ is_class(c)
             /\ name(c) = Str(split(ref, Hash)[1])
             /\ HasMethodNamed(c, split(ref, Hash)[2])
        ELSE is_class(c) /\ name(c) = Str(ref)

\* C25: translate_ref_to_url never raises; a reference that matches
\* nothing gives the empty string, a '#method' reference to a method of
\* the containing class gives the local '#method', and any other match
\* gives the url of the first matching file in iteration order.
C25_NeverRaisesFirstMatch ==
    cb.pc = "translated" =>
        LET target  == Last(split(cb.ref, Hash))
            matches == {i \in 1..Len(cb.files) : MatchesIn(cb.files[i], cb.ref)} IN
        /\ cb.result.raised = NoException
        /\ cb.result.url =
              IF /\ startswith(cb.ref, <<Hash>>)
                 /\ OwnerOf(cb.files, cb.in_comment) # NoEntity
                 /\ HasMethodNamed(OwnerOf(cb.files, cb.in_comment), target)
              THEN <<Hash>> \o target
              ELSE IF matches = {} THEN << >>
              ELSE FileDoc_url(cb.files[CHOOSE i \in matches : \A j \in matches : i <= j])
                       \o <<Hash>> \o target

\* The lines of a text.
Lines(s) == split(s, NL)

\* C26: strip_stars removes the comment markers and the star decoration
\* of the interior lines and trims the whitespace around the text, and
\* applying it to its own result changes nothing.
C26_StripStarsIdempotent ==
    /\ ss.pc \in {"stripped", "twice"} =>
          /\ ss.stripped = strip(ss.stripped)
          /\ Len(ss.stripped) <= Len(ss.doc_comment) - 5
    /\ ss.pc = "twice" => ss.again = ss.stripped

\* C28: find_dependencies terminates for every lookup and start list,
\* cycles and self-dependencies included: no file gets into the work queue
\* twice, and the call ends with a list or an exception.
C28_FindDependenciesTerminates == <>Finished(fd) /\ []NoDup(fd.queue)

C28_Witness ==
    /\ fd.pc = "raised"
    /\ fd.raised.type = "CyclicDependency"
    /\ \E file \in Range(fd.queue) : file \in Range(js_doc[file])
    /\ \E file \in Range(fd.queue) : \E other \in Range(js_doc[file]) \ {file} :
           other \in DOMAIN js_doc /\ file \in Range(js_doc[other])

\* C29: with distinct start files, also when a file declares one
\* dependency more than once, no in-degree counter gets negative, the
\* list returned holds no file twice, and CyclicDependency is raised only
\* if a file of the graph lies on a cycle.
C29_RepeatedDeclarationHarmless ==
    /\ \A node \in DOMAIN fd.dependencies : in_degree(fd.dependencies, node) >= 0
    /\ NoDup(fd.retval)
    /\ (fd.pc = "raised" /\ fd.raised.type = "CyclicDependency")
           => \E file \in DOMAIN fd.dependencies : OnCycle(file)

C29_Witness ==
    /\ fd.pc = "returned"
    /\ Len(fd.retval) = 2
    /\ js_doc[Last(fd.retval)] = <<Head(fd.retval), Head(fd.retval)>>

\* The step a character makes the counter of pair k take.
Dir(delimiters, k, c) ==
    IF c = delimiters[2 * k] THEN -1 ELSE IF c = delimiters[2 * k - 1] THEN 1 ELSE 0

\* C30: split_delimited does not clamp a pair's counter at zero: a closer
\* without opener makes it negative, and while a counter is negative no
\* split is made, so one stray closer can merge all the split characters
\* after it into one segment.
C30_DepthNotClamped ==
    [][(sd.pc = "loop" /\ sd.i < Len(sd.text)) =>
          /\ \A k \in 1..Len(sd.delims) :
                 sd'.delims[k] = sd.delims[k] + Dir(sd.delimiters, k, At(sd.text, sd.i))
          /\ (\E k \in 1..Len(sd.delims) : sd.delims[k] < 0) => sd'.out = sd.out]_vars

C30_Witness ==
    /\ sd.pc = "done"
    /\ sd.delimiters = <<"(", ")">>
    /\ sd.split_by = LiteralSplit(",")
    /\ sd.text = <<")", ",", "a", ",">>
    /\ sd.delims = <<-1>>
    /\ sd.out = <<sd.text>>

====
